---------------------------- MODULE Spec2Model ----------------------------
(***************************************************************************)
(* A model of lascheck's LASFile (src/lascheck/lascheck/las.py) and of the *)
(* LAS 2.0 rules of src/lascheck/lascheck/spec.py.                         *)
(*                                                                         *)
(* Text is modelled at the granularity the code reads it at:               *)
(*   - a mnemonic or a unit is a sequence of one-character strings, so     *)
(*     that upper-casing, the first character, '#' and the character class *)
(*     of VALID_PATTERN are computed character by character;               *)
(*   - a section title is the record [lead, rest]: the text "~", then the  *)
(*     character lead, then rest (re.match("~V", title) reads lead only,   *)
(*     title[1:] is lead \o rest);                                         *)
(*   - a diagnostic is the record [text, detail]: the message prefix that  *)
(*     tr() translates and the values formatted into the message.          *)
(* A numeric header value v is held as 10*v (VERS 1.2 is 12, 2.0 is 20).   *)
(***************************************************************************)
EXTENDS Integers, Sequences, FiniteSets, TLC

VARIABLES
    las,      \* the LASFile object: a record of its attributes
    pc,       \* "new" (constructed, nothing read) | "read" | "failed" (last read() raised)
    src,      \* the source and keyword arguments of the last read() call
    before,   \* the object as it was when the last read() was entered
    las0,     \* the object as it was when the last successful read() returned
    ret,      \* what the last get_non_conformities()/check_conformity() call did
    rets,     \* the lists returned by the get_non_conformities() calls since the last read()
    reads     \* number of read() calls made on the object

vars == <<las, pc, src, before, las0, ret, rets, reads>>

---------------------------------------------------------------------------
(* Bounds *)

\* get_non_conformities()/check_conformity() calls followed after one read()
MaxCalls == 2

\* read() calls followed on one object
MaxReads == 2

---------------------------------------------------------------------------
(* Characters *)

UpperCase == <<"A","B","C","D","E","F","G","H","I","J","K","L","M",
               "N","O","P","Q","R","S","T","U","V","W","X","Y","Z">>

LowerCase == <<"a","b","c","d","e","f","g","h","i","j","k","l","m",
               "n","o","p","q","r","s","t","u","v","w","x","y","z">>

Digits == <<"0","1","2","3","4","5","6","7","8","9">>

Range(s) == {s[i] : i \in DOMAIN s}

IndexOf(s, c) == CHOOSE i \in DOMAIN s : s[i] = c

\* str.isalpha() on one character
isalpha(c) == c \in Range(UpperCase) \cup Range(LowerCase)

\* str.upper() / str.lower() on one character
upperChar(c) == IF c \in Range(LowerCase) THEN UpperCase[IndexOf(LowerCase, c)] ELSE c

lowerChar(c) == IF c \in Range(UpperCase) THEN LowerCase[IndexOf(UpperCase, c)] ELSE c

\* str.upper() / str.lower()
upper(s) == [i \in DOMAIN s |-> upperChar(s[i])]

lower(s) == [i \in DOMAIN s |-> lowerChar(s[i])]

\* the characters VALID_PATTERN accepts: [A-Za-z0-9_\-\.]
ValidChars == Range(UpperCase) \cup Range(LowerCase) \cup Range(Digits) \cup {"_", "-", "."}

\* the characters SPECIAL_CHARS_PATTERN finds, among those the inputs can hold
SpecialChars == {"#", "@", "!", "$", "%", "&", ":", "+", "="}

---------------------------------------------------------------------------
(* Header values, lines, titles: the text of a source *)

None == [num |-> FALSE, n |-> 0, s |-> "None"]

Num(n) == [num |-> TRUE, n |-> n, s |-> ""]

Str(s) == [num |-> FALSE, n |-> 0, s |-> s]

\* a well-formed header line MNEM.UNIT VALUE : DESCRIPTION
Line(m, u, v) == [kind |-> "item", mnemonic |-> m, unit |-> u, value |-> v]

\* a line no header grammar matches; raw is its text
BadLine(raw) == [kind |-> "bad", mnemonic |-> raw, unit |-> <<>>, value |-> Str("")]

\* a blank (or comment-only) line
BlankLine == [kind |-> "blank", mnemonic |-> <<>>, unit |-> <<>>, value |-> Str("")]

\* the title "~" lead rest
Title(lead, rest) == [lead |-> lead, rest |-> rest]

TitleText(t) == "~" \o t.lead \o t.rest

RawSection(title, lines) == [title |-> title, lines |-> lines]

---------------------------------------------------------------------------
(* reader.read_file_contents and reader.parse_header_section *)

RECURSIVE SumLen(_, _)
SumLen(source, k) ==
    IF k = 0 THEN 0 ELSE SumLen(source, k - 1) + 1 + Len(source[k].lines)

\* 1-based physical line of line j of section i (its title is line j = 0)
LineNumber(source, i, j) == SumLen(source, i - 1) + 1 + j

\* header kind for ~V ~W ~C ~P and every nonstandard title, special kind for ~A ~O
section_type(title) ==
    IF upperChar(title.lead) \in {"A", "O"} THEN "special" ELSE "header"

\* a blank line that is followed by another line of the same section
HasInteriorBlank(lines) ==
    \E j \in 1..(Len(lines) - 1) : lines[j].kind = "blank"

\* the lines the reader keeps of section i: the non-blank ones, each with its line number
KeptLines(source, i) ==
    LET numbered == [j \in 1..Len(source[i].lines) |->
                        [kind |-> source[i].lines[j].kind,
                         mnemonic |-> source[i].lines[j].mnemonic,
                         unit |-> source[i].lines[j].unit,
                         value |-> source[i].lines[j].value,
                         line_number |-> LineNumber(source, i, j)]]
        NotBlank(l) == l.kind # "blank"
    IN  SelectSeq(numbered, NotBlank)

RECURSIVE BlankTitles(_, _)
BlankTitles(source, k) ==
    IF k = 0 THEN <<>>
    ELSE IF HasInteriorBlank(source[k].lines)
         THEN Append(BlankTitles(source, k - 1), TitleText(source[k].title))
         ELSE BlankTitles(source, k - 1)

\* raw_sections is a dict keyed by the title (las.py pops and looks up by
\* title): a section whose title was met before replaces the entry of that
\* title, which keeps its place
RECURSIVE RawSections(_, _)
RawSections(source, k) ==
    IF k = 0 THEN <<>>
    ELSE LET earlier == RawSections(source, k - 1)
             entry == [title |-> source[k].title,
                       section_type |-> section_type(source[k].title),
                       lines |-> KeptLines(source, k)]
         IN  IF \E i \in DOMAIN earlier : earlier[i].title = entry.title
             THEN [i \in DOMAIN earlier |->
                      IF earlier[i].title = entry.title THEN entry ELSE earlier[i]]
             ELSE Append(earlier, entry)

read_file_contents(source) ==
    [raw_sections |-> RawSections(source, Len(source)),
     sections_after_a_section |->
        \E i, j \in 1..Len(source) :
            /\ i < j
            /\ upperChar(source[i].title.lead) = "A"
            /\ section_type(source[j].title) = "header",
     v_section_first |-> Len(source) > 0 /\ upperChar(source[1].title.lead) = "V",
     blank_line_in_section |-> BlankTitles(source, Len(source)) # <<>>,
     sections_with_blank_line |-> BlankTitles(source, Len(source))]

\* the mnemonic-case policy: 'upper', 'lower' or 'preserve'
ApplyCase(m, mnemonic_case) ==
    CASE mnemonic_case = "upper" -> upper(m)
      [] mnemonic_case = "lower" -> lower(m)
      [] OTHER -> m

\* the lookup key of item k: its canonical mnemonic, with the suffix :n when
\* the canonical mnemonic occurs more than once in the section (n-th occurrence)
Suffixed(keys, k) ==
    LET same == {i \in DOMAIN keys : keys[i] = keys[k]}
        nth  == Cardinality({i \in same : i <= k})
    IN  IF Cardinality(same) > 1 /\ keys[k] # <<>>
        THEN keys[k] \o <<":", Digits[nth + 1]>>
        ELSE keys[k]

parse_header_section(raw_section, version, mnemonic_case) ==
    LET IsItem(l) == l.kind = "item"
        IsBad(l)  == l.kind = "bad"
        good == SelectSeq(raw_section.lines, IsItem)
        bad  == SelectSeq(raw_section.lines, IsBad)
        keys == [k \in DOMAIN good |-> ApplyCase(good[k].mnemonic, mnemonic_case)]
    IN  [kind |-> "items",
         items |-> [k \in DOMAIN good |->
                      [mnemonic |-> Suffixed(keys, k),
                       original_mnemonic |-> good[k].mnemonic,
                       unit |-> good[k].unit,
                       value |-> good[k].value,
                       line_number |-> good[k].line_number]],
         header_errors |-> [k \in DOMAIN bad |-> bad[k].mnemonic],
         version |-> version,
         text |-> <<>>]

\* "\n".join(raw_section["lines"]): a section kept as raw text
TextSection(raw_section) ==
    [kind |-> "text", items |-> <<>>, header_errors |-> <<>>, version |-> 0,
     text |-> [k \in DOMAIN raw_section.lines |-> raw_section.lines[k].mnemonic]]

---------------------------------------------------------------------------
(* Mnemonics and units of the LAS 2.0 header *)

VERS == <<"V","E","R","S">>
WRAP == <<"W","R","A","P">>
STRT == <<"S","T","R","T">>
STOP == <<"S","T","O","P">>
STEP == <<"S","T","E","P">>
NULL == <<"N","U","L","L">>
COMP == <<"C","O","M","P">>
WELL == <<"W","E","L","L">>
FLD  == <<"F","L","D">>
LOC  == <<"L","O","C">>
SRVC == <<"S","R","V","C">>
DATE == <<"D","A","T","E">>
UWI  == <<"U","W","I">>
API  == <<"A","P","I">>
PROV == <<"P","R","O","V">>
CNTY == <<"C","N","T","Y">>
CTRY == <<"C","T","R","Y">>
STAT == <<"S","T","A","T">>
DEPT == <<"D","E","P","T">>
DEPTH == <<"D","E","P","T","H">>
TIME == <<"T","I","M","E">>
INDEX == <<"I","N","D","E","X">>

U_M  == <<"M">>
U_F  == <<"F">>
U_FT == <<"F","T">>

---------------------------------------------------------------------------
(* SectionItems and the sections mapping *)

\* key in section (SectionItems.__contains__): some item has that lookup key
Contains(section, key) ==
    \E k \in DOMAIN section.items : section.items[k].mnemonic = key

\* section[key] for a mnemonic: the first item with that lookup key
Item(section, key) ==
    section.items[CHOOSE k \in DOMAIN section.items :
                      /\ section.items[k].mnemonic = key
                      /\ \A j \in 1..(k - 1) : section.items[j].mnemonic # key]

\* self.sections[name] = value, keeping the dict's insertion order
SetSection(l, name, value) ==
    [l EXCEPT !.sections = [x \in (DOMAIN l.sections) \cup {name} |->
                               IF x = name THEN value ELSE l.sections[x]],
              !.section_names = IF name \in DOMAIN l.sections
                                THEN @ ELSE Append(@, name)]

HasSection(l, name) == name \in DOMAIN l.sections

\* defaults.get_default_items()
DefaultItem(m, u, v) ==
    [mnemonic |-> m, original_mnemonic |-> m, unit |-> u, value |-> v, line_number |-> 0]

ItemsSection(items) ==
    [kind |-> "items", items |-> items, header_errors |-> <<>>, version |-> 0, text |-> <<>>]

get_default_items ==
    [Version   |-> ItemsSection(<<DefaultItem(VERS, <<>>, Num(20)),
                                  DefaultItem(WRAP, <<>>, Str("NO"))>>),
     Well      |-> ItemsSection(<<DefaultItem(STRT, <<"m">>, Num(0)),
                                  DefaultItem(STOP, <<"m">>, Num(0)),
                                  DefaultItem(STEP, <<"m">>, Num(0)),
                                  DefaultItem(NULL, <<>>, Num(-99992)),
                                  DefaultItem(COMP, <<>>, Str("")),
                                  DefaultItem(WELL, <<>>, Str("")),
                                  DefaultItem(FLD,  <<>>, Str("")),
                                  DefaultItem(LOC,  <<>>, Str("")),
                                  DefaultItem(PROV, <<>>, Str("")),
                                  DefaultItem(CNTY, <<>>, Str("")),
                                  DefaultItem(STAT, <<>>, Str("")),
                                  DefaultItem(CTRY, <<>>, Str("")),
                                  DefaultItem(SRVC, <<>>, Str("")),
                                  DefaultItem(DATE, <<>>, Str("")),
                                  DefaultItem(UWI,  <<>>, Str("")),
                                  DefaultItem(API,  <<>>, Str(""))>>),
     Curves    |-> ItemsSection(<<>>),
     Parameter |-> ItemsSection(<<>>),
     Other     |-> [kind |-> "text", items |-> <<>>, header_errors |-> <<>>,
                    version |-> 0, text |-> <<>>]]

---------------------------------------------------------------------------
(* tr(): the message prefix is replaced by its entry of ERROR_MESSAGES *)

\* the translations are written here in Latin letters
ERROR_MESSAGES ==
    [x \in {"No ~ sections found. Is this a LAS file?",
            "Duplicate v section", "Duplicate w section", "Duplicate c section",
            "Duplicate p section", "Duplicate o section",
            "Missing mandatory sections",
            "Missing mandatory lines in ~v Section",
            "Missing mandatory lines in ~w Section",
            "Invalid index mnemonic. The only valid mnemonics for the index channel are DEPT, DEPTH, TIME, or INDEX.",
            "~v section not first",
            "Sections after ~a section",
            "If the index is depth, the units must be M (metres), F (feet) or FT (feet)",
            "Header error in",
            "Section having blank line",
            "Invalid characters in mnemonic",
            "Hash character (#) in mnemonic",
            "Mnemonic does not start with letter",
            "Duplicate curve mnemonics found"} |-> "ru: " \o x]

\* a message: the prefix tr() looks up and the values formatted after it
Msg(text, detail) == [text |-> text, detail |-> detail]

tr(msg) ==
    IF msg.text \in DOMAIN ERROR_MESSAGES
    THEN [msg EXCEPT !.text = ERROR_MESSAGES[msg.text]]
    ELSE msg

---------------------------------------------------------------------------
(* LASFile.__init__ *)

\* an optional unit text: None, or the text s
NoUnit == [none |-> TRUE, s |-> <<>>]

SomeUnit(s) == [none |-> FALSE, s |-> s]

LASFile(file_ref_given) ==
    [index_unit |-> NoUnit,
     non_conformities |-> <<>>,
     duplicate_v_section |-> FALSE,
     duplicate_w_section |-> FALSE,
     duplicate_p_section |-> FALSE,
     duplicate_c_section |-> FALSE,
     duplicate_o_section |-> FALSE,
     sections_after_a_section |-> FALSE,
     v_section_first |-> FALSE,
     blank_line_in_section |-> FALSE,
     sections_with_blank_line |-> <<>>,
     duplicate_curves |-> <<>>,
     raw_sections |-> <<>>,
     sections |-> IF file_ref_given THEN <<>> ELSE get_default_items,
     section_names |-> IF file_ref_given THEN <<>>
                       ELSE <<"Version", "Well", "Curves", "Parameter", "Other">>]

---------------------------------------------------------------------------
(* LASFile.read *)

\* defaults.DEPTH_UNITS, in the order its items() are iterated
DEPTH_UNITS ==
    <<[unit |-> <<"F","T">>,
       possibilities |-> {<<"F","T">>, <<"F">>, <<"F","E","E","T">>, <<"F","O","O","T">>}],
      [unit |-> <<"M">>,
       possibilities |-> {<<"M">>, <<"M","E","T","E","R">>, <<"M","E","T","E","R","S">>,
                          <<"M","E","T","R","E">>, <<"M","E","T","R","E","S">>}]>>

\* index of the first raw section whose title matches "~" lead (re.IGNORECASE), 0 if none
match_raw_section(l, lead) ==
    LET hits == {i \in DOMAIN l.raw_sections :
                    upperChar(l.raw_sections[i].title.lead) = lead}
    IN  IF hits = {} THEN 0 ELSE CHOOSE i \in hits : \A j \in hits : i <= j

\* self.raw_sections.pop(key) for the section at index i
PopRaw(l, i) ==
    [l EXCEPT !.raw_sections =
        [k \in 1..(Len(@) - 1) |-> IF k < i THEN @[k] ELSE @[k + 1]]]

add_section(l, lead, name, version, mnemonic_case) ==
    LET i == match_raw_section(l, lead)
    IN  IF i # 0
        THEN PopRaw(SetSection(l, name,
                 parse_header_section(l.raw_sections[i], version, mnemonic_case)), i)
        ELSE l

add_special_section(l, lead, name) ==
    LET i == match_raw_section(l, lead)
    IN  IF i # 0
        THEN PopRaw(SetSection(l, name, TextSection(l.raw_sections[i])), i)
        ELSE l

\* if self.match_raw_section("~X"): self.duplicate_x_section = True; append the message
MarkDuplicate(l, lead) ==
    IF match_raw_section(l, lead) = 0 THEN l
    ELSE LET m == [l EXCEPT !.non_conformities =
                      Append(@, tr(Msg("Duplicate " \o lowerChar(lead) \o " section", <<>>)))]
         IN  CASE lead = "V" -> [m EXCEPT !.duplicate_v_section = TRUE]
               [] lead = "W" -> [m EXCEPT !.duplicate_w_section = TRUE]
               [] lead = "C" -> [m EXCEPT !.duplicate_c_section = TRUE]
               [] lead = "P" -> [m EXCEPT !.duplicate_p_section = TRUE]
               [] lead = "O" -> [m EXCEPT !.duplicate_o_section = TRUE]

\* version = self.version["VERS"].value, None on KeyError
EstablishVersion(l) ==
    IF HasSection(l, "Version") /\ Contains(l.sections["Version"], VERS)
    THEN Item(l.sections["Version"], VERS).value
    ELSE None

\* the try/assert/except of lines 222-232; a text value makes version < 2 raise TypeError
VersionRaises(version) == version # None /\ ~version.num

\* the value of VERS used as it stands
ValidateVersion_asis(version) ==
    IF version = None THEN 20 ELSE version.n

ValidateVersion(version) ==
    IF version = None THEN 20
    ELSE IF version.n \in {12, 20} THEN version.n
    ELSE IF version.n < 20 THEN 12
    ELSE 20

\* the nonstandard sections: every remaining raw section of header type is
\* stored as text under title[1:] and dropped from raw_sections
RECURSIVE StoreNonstandard(_, _)
StoreNonstandard(l, k) ==
    IF k > Len(l.raw_sections) THEN l
    ELSE LET s == l.raw_sections[k]
         IN  IF s.section_type = "header"
             THEN StoreNonstandard(
                      PopRaw(SetSection(l, s.title.lead \o s.title.rest, TextSection(s)), k), k)
             ELSE StoreNonstandard(l, k + 1)

\* the items whose units decide the index unit
check_units_on(l) ==
    LET Pick(m) == IF HasSection(l, "Well") /\ Contains(l.sections["Well"], m)
                   THEN <<Item(l.sections["Well"], m)>> ELSE <<>>
        first == IF HasSection(l, "Curves") /\ Len(l.sections["Curves"].items) > 0
                 THEN <<l.sections["Curves"].items[1]>> ELSE <<>>
    IN  Pick(STRT) \o Pick(STOP) \o Pick(STEP) \o first

RECURSIVE InferIndexUnit(_, _, _)
InferIndexUnit(l, on, k) ==
    IF k > Len(DEPTH_UNITS) THEN l
    ELSE IF \A i \in DOMAIN on : upper(on[i].unit) \in DEPTH_UNITS[k].possibilities
         THEN InferIndexUnit([l EXCEPT !.index_unit = SomeUnit(DEPTH_UNITS[k].unit)], on, k + 1)
         ELSE InferIndexUnit(l, on, k + 1)

\* the units of the header always decide
SetIndexUnit_inferred(l, index_unit) ==
    InferIndexUnit(l, check_units_on(l), 1)

SetIndexUnit(l, index_unit) ==
    LET given == IF ~index_unit.none /\ "m" \in Range(index_unit.s)
                 THEN SomeUnit(<<"m">>) ELSE index_unit
    IN  IF ~given.none /\ given.s # <<>>
        THEN [l EXCEPT !.index_unit = given]
        ELSE InferIndexUnit(l, check_units_on(l), 1)

\* the message of the KeyError of line 168, which is the spec's FormatError
NoSectionsError == "KeyError: No ~ sections found. Is this a LAS file?"

NoSectionsFound_never(l) == FALSE

\* if len(self.raw_sections) == 0
NoSectionsFound(l) == Len(l.raw_sections) = 0

\* read(): the object it leaves and the exception it raised ("no" when it returned)
read(l0, source, mnemonic_case, index_unit) ==
    LET r  == read_file_contents(source)
        l1 == [l0 EXCEPT !.raw_sections = r.raw_sections,
                         !.sections_after_a_section = r.sections_after_a_section,
                         !.v_section_first = r.v_section_first,
                         !.blank_line_in_section = r.blank_line_in_section,
                         !.sections_with_blank_line = r.sections_with_blank_line]
    IN  IF NoSectionsFound(l1)
        THEN [las |-> l1, raised |-> NoSectionsError]
        ELSE
        LET l2 == MarkDuplicate(add_section(l1, "V", "Version", 12, mnemonic_case), "V")
            version == EstablishVersion(l2)
        IN  IF VersionRaises(version)
            THEN [las |-> l2, raised |-> "TypeError"]
            ELSE
            LET v  == ValidateVersion(version)
                l3 == MarkDuplicate(add_section(l2, "W", "Well", v, mnemonic_case), "W")
                l4 == MarkDuplicate(add_section(l3, "C", "Curves", v, mnemonic_case), "C")
                l5 == MarkDuplicate(add_section(l4, "P", "Parameter", v, mnemonic_case), "P")
                l6 == add_special_section(l5, "A", "Ascii")
                l7 == MarkDuplicate(add_special_section(l6, "O", "Other"), "O")
                l8 == StoreNonstandard(l7, 1)
            IN  [las |-> SetIndexUnit(l8, index_unit), raised |-> "no"]

---------------------------------------------------------------------------
(* The rules of spec.py *)

curves(l) == l.sections["Curves"].items

well(l) == l.sections["Well"]

version(l) == l.sections["Version"]

params(l) == l.sections["Parameter"].items

MandatorySections_check(l) ==
    /\ HasSection(l, "Version")
    /\ HasSection(l, "Well")
    /\ HasSection(l, "Curves")
    /\ HasSection(l, "Ascii")

get_missing_mandatory_sections(l) ==
    (IF ~HasSection(l, "Version") THEN << <<"~","V">> >> ELSE <<>>)
    \o (IF ~HasSection(l, "Well") THEN << <<"~","W">> >> ELSE <<>>)
    \o (IF ~HasSection(l, "Curves") THEN << <<"~","C">> >> ELSE <<>>)
    \o (IF ~HasSection(l, "Ascii") THEN << <<"~","A">> >> ELSE <<>>)

\* VERS alone demanded
MandatoryLinesInVersionSection_check_vers(l) ==
    HasSection(l, "Version") /\ Contains(version(l), VERS)

MandatoryLinesInVersionSection_check(l) ==
    IF HasSection(l, "Version")
    THEN \A elem \in {VERS, WRAP} : Contains(version(l), elem)
    ELSE FALSE

\* the test of PROV, CNTY, CTRY, STAT left out
MandatoryLinesInWellSection_check_noplace(l) ==
    /\ HasSection(l, "Well")
    /\ \A elem \in {STRT, STOP, STEP, NULL, COMP, WELL, FLD, LOC, SRVC, DATE} :
          Contains(well(l), elem)
    /\ (Contains(well(l), UWI) \/ Contains(well(l), API))

\* 'or' for 'and' at line 71: UWI and API both demanded
MandatoryLinesInWellSection_check_both(l) ==
    /\ HasSection(l, "Well")
    /\ \A elem \in {STRT, STOP, STEP, NULL, COMP, WELL, FLD, LOC, SRVC, DATE} :
          Contains(well(l), elem)
    /\ Contains(well(l), UWI) /\ Contains(well(l), API)
    /\ \E elem \in {PROV, CNTY, CTRY, STAT} : Contains(well(l), elem)

MandatoryLinesInWellSection_check(l) ==
    IF HasSection(l, "Well")
    THEN IF ~(\A elem \in {STRT, STOP, STEP, NULL, COMP, WELL, FLD, LOC, SRVC, DATE} :
                 Contains(well(l), elem))
         THEN FALSE
         ELSE IF ~Contains(well(l), UWI) /\ ~Contains(well(l), API)
         THEN FALSE
         ELSE IF /\ ~Contains(well(l), PROV) /\ ~Contains(well(l), CNTY)
                 /\ ~Contains(well(l), CTRY) /\ ~Contains(well(l), STAT)
         THEN FALSE
         ELSE TRUE
    ELSE FALSE

DuplicateSections_check(l) ==
    IF \/ l.duplicate_v_section \/ l.duplicate_w_section \/ l.duplicate_p_section
       \/ l.duplicate_c_section \/ l.duplicate_o_section \/ l.sections_after_a_section
    THEN FALSE
    ELSE TRUE

\* las_file.curves[0] raises IndexError on a Curves section without curves
ValidIndexMnemonic_raises(l) ==
    HasSection(l, "Curves") /\ Len(curves(l)) = 0

ValidIndexMnemonic_check(l) ==
    IF HasSection(l, "Curves")
    THEN curves(l)[1].mnemonic \in {DEPT, DEPTH, TIME, INDEX}
    ELSE FALSE

ValidUnitForDepth_enforced(l) ==
    /\ HasSection(l, "Curves") /\ HasSection(l, "Well")
    /\ Contains(well(l), STRT) /\ Contains(well(l), STOP) /\ Contains(well(l), STEP)

ValidUnitForDepth_raises(l) ==
    ValidUnitForDepth_enforced(l) /\ Len(curves(l)) = 0

\* the unit test applied to every index mnemonic
ValidUnitForDepth_check_any(l) ==
    IF ValidUnitForDepth_enforced(l)
    THEN LET index_unit == curves(l)[1].unit
         IN  /\ (index_unit = U_M \/ index_unit = U_F \/ index_unit = U_FT)
             /\ Item(well(l), STRT).unit = index_unit
             /\ Item(well(l), STOP).unit = index_unit
             /\ Item(well(l), STEP).unit = index_unit
    ELSE TRUE

ValidUnitForDepth_check(l) ==
    IF ValidUnitForDepth_enforced(l)
    THEN IF curves(l)[1].mnemonic = DEPT \/ curves(l)[1].mnemonic = DEPTH
         THEN LET index_unit == curves(l)[1].unit
              IN  /\ (index_unit = U_M \/ index_unit = U_F \/ index_unit = U_FT)
                  /\ Item(well(l), STRT).unit = index_unit
                  /\ Item(well(l), STOP).unit = index_unit
                  /\ Item(well(l), STEP).unit = index_unit
         ELSE TRUE
    ELSE TRUE

VSectionFirst_check(l) == l.v_section_first

\* the flag of the rule before it
BlankLineInSection_check_first(l) == l.v_section_first

BlankLineInSection_check(l) == IF l.blank_line_in_section THEN FALSE ELSE TRUE

\* VALID_PATTERN.match(m): one or more characters, all of the class
VALID_PATTERN(m) == m # <<>> /\ \A i \in DOMAIN m : m[i] \in ValidChars

\* SPECIAL_CHARS_PATTERN.findall(m)
SPECIAL_CHARS_findall(m) ==
    LET Special(c) == c \in SpecialChars IN SelectSeq(m, Special)

ValidMnemonicCharacters_check_curves(l) ==
    IF ~HasSection(l, "Curves") THEN TRUE
    ELSE \A i \in DOMAIN curves(l) : VALID_PATTERN(curves(l)[i].original_mnemonic)

ValidMnemonicCharacters_check_well_section(l) ==
    IF ~HasSection(l, "Well") THEN TRUE
    ELSE \A i \in DOMAIN well(l).items : VALID_PATTERN(well(l).items[i].mnemonic)

ValidMnemonicCharacters_check_parameters(l) ==
    IF ~HasSection(l, "Parameter") THEN TRUE
    ELSE \A i \in DOMAIN params(l) : VALID_PATTERN(params(l)[i].mnemonic)

ValidMnemonicCharacters_check(l) ==
    /\ ValidMnemonicCharacters_check_curves(l)
    /\ ValidMnemonicCharacters_check_well_section(l)
    /\ ValidMnemonicCharacters_check_parameters(l)

\* decimal text of a number below 100
NumText(n) == IF n < 10 THEN <<Digits[n + 1]>>
              ELSE <<Digits[(n \div 10) + 1], Digits[(n % 10) + 1]>>

\* one entry per offending item, in section order: [type, index, mnemonic, ...]
RECURSIVE InvalidOf(_, _, _, _)
InvalidOf(items, k, type, orig) ==
    IF k > Len(items) THEN <<>>
    ELSE LET m == IF orig THEN items[k].original_mnemonic ELSE items[k].mnemonic
         IN  (IF ~VALID_PATTERN(m)
              THEN <<[type |-> type, index |-> k, mnemonic |-> m,
                      special_chars |-> SPECIAL_CHARS_findall(m)]>>
              ELSE <<>>)
             \o InvalidOf(items, k + 1, type, orig)

get_invalid_mnemonics(l) ==
    (IF HasSection(l, "Curves") THEN InvalidOf(curves(l), 1, "curve", TRUE) ELSE <<>>)
    \o (IF HasSection(l, "Well") THEN InvalidOf(well(l).items, 1, "well", FALSE) ELSE <<>>)
    \o (IF HasSection(l, "Parameter") THEN InvalidOf(params(l), 1, "parameter", FALSE) ELSE <<>>)

HasHash(items) == \E i \in DOMAIN items : "#" \in Range(items[i].mnemonic)

NoHashInMnemonics_check(l) ==
    /\ ~(HasSection(l, "Curves") /\ HasHash(curves(l)))
    /\ ~(HasSection(l, "Well") /\ HasHash(well(l).items))
    /\ ~(HasSection(l, "Parameter") /\ HasHash(params(l)))

\* isdigit() for 'not isalpha()'
BadStart_digit(m) == m # <<>> /\ m[1] \in Range(Digits)

BadStart(m) == m # <<>> /\ ~isalpha(m[1])

MnemonicStartsWithLetter_check(l) ==
    /\ ~(HasSection(l, "Curves") /\ \E i \in DOMAIN curves(l) : BadStart(curves(l)[i].mnemonic))
    /\ ~(HasSection(l, "Well")
            /\ \E i \in DOMAIN well(l).items : BadStart(well(l).items[i].mnemonic))
    /\ ~(HasSection(l, "Parameter")
            /\ \E i \in DOMAIN params(l) : BadStart(params(l)[i].mnemonic))

RECURSIVE InvalidStartOf(_, _, _)
InvalidStartOf(items, k, type) ==
    IF k > Len(items) THEN <<>>
    ELSE (IF BadStart(items[k].mnemonic)
          THEN <<[type |-> type, index |-> k, mnemonic |-> items[k].mnemonic,
                  first_char |-> items[k].mnemonic[1]]>>
          ELSE <<>>)
         \o InvalidStartOf(items, k + 1, type)

get_invalid_starting_mnemonics(l) ==
    (IF HasSection(l, "Curves") THEN InvalidStartOf(curves(l), 1, "curve") ELSE <<>>)
    \o (IF HasSection(l, "Well") THEN InvalidStartOf(well(l).items, 1, "well") ELSE <<>>)
    \o (IF HasSection(l, "Parameter") THEN InvalidStartOf(params(l), 1, "parameter") ELSE <<>>)

DuplicateCurves_check(l) ==
    IF ~HasSection(l, "Curves") THEN TRUE
    ELSE ~\E i, j \in DOMAIN curves(l) :
            i < j /\ curves(l)[i].original_mnemonic = curves(l)[j].original_mnemonic

\* the dict curve_info, then duplicates: one entry [mnemonic, lines] per original
\* mnemonic met on two or more curves, in the order of first occurrence
get_duplicate_curves_with_lines(l) ==
    IF ~HasSection(l, "Curves") THEN <<>>
    ELSE LET cs == curves(l)
             First(k) == \A j \in 1..(k - 1) : cs[j].original_mnemonic # cs[k].original_mnemonic
             LinesOf(m) ==
                 LET Same(c) == c.original_mnemonic = m
                     same == SelectSeq(cs, Same)
                 IN  [i \in DOMAIN same |-> same[i].line_number]
             info == [k \in DOMAIN cs |->
                        [mnemonic |-> cs[k].original_mnemonic,
                         lines |-> LinesOf(cs[k].original_mnemonic),
                         first |-> First(k)]]
             Dup(e) == e.first /\ Len(e.lines) > 1
             dups == SelectSeq(info, Dup)
         IN  [i \in DOMAIN dups |-> [mnemonic |-> dups[i].mnemonic, lines |-> dups[i].lines]]

---------------------------------------------------------------------------
(* LASFile.check_conformity and LASFile.get_non_conformities *)

\* the rules in the order of the 'and' chain; the chain stops at the first False
\* and raises IndexError when it reaches curves[0] of an empty Curves section
check_conformity(l) ==
    LET before_index == /\ MandatorySections_check(l)
                        /\ MandatoryLinesInVersionSection_check(l)
                        /\ MandatoryLinesInWellSection_check(l)
                        /\ DuplicateSections_check(l)
    IN  IF before_index /\ ValidIndexMnemonic_raises(l)
        THEN [value |-> FALSE, raised |-> "IndexError"]
        ELSE [value |-> /\ before_index
                        /\ ValidIndexMnemonic_check(l)
                        /\ VSectionFirst_check(l)
                        /\ BlankLineInSection_check(l)
                        /\ ValidUnitForDepth_check(l)
                        /\ ValidMnemonicCharacters_check(l)
                        /\ NoHashInMnemonics_check(l)
                        /\ MnemonicStartsWithLetter_check(l)
                        /\ DuplicateCurves_check(l),
              raised |-> "no"]

InvalidCharactersMsg(invalid) ==
    IF invalid.type = "curve"
    THEN tr(Msg("Invalid characters in mnemonic",
                << <<"curve">>, NumText(invalid.index), invalid.mnemonic,
                   invalid.special_chars >>))
    ELSE tr(Msg("Invalid characters in mnemonic",
                << <<"section">>, invalid.mnemonic,
                   IF invalid.type = "well" THEN <<"~","W">> ELSE <<"~","P">>,
                   invalid.special_chars >>))

InvalidStartMsg(item) ==
    IF item.type = "curve"
    THEN tr(Msg("Mnemonic does not start with letter",
                << <<"curve">>, NumText(item.index), item.mnemonic, <<item.first_char>> >>))
    ELSE tr(Msg("Mnemonic does not start with letter",
                << <<"section">>, item.mnemonic,
                   IF item.type = "well" THEN <<"~","W">> ELSE <<"~","P">>,
                   <<item.first_char>> >>))

\* the most recent line only
DuplicateDescription_last(d) ==
    <<d.mnemonic, <<"lines:">>, NumText(d.lines[Len(d.lines)])>>

\* '"{}" (lines: {})'.format(mnemonic, line_nums_str)
DuplicateDescription(d) ==
    <<d.mnemonic, <<"lines:">>>> \o [i \in DOMAIN d.lines |-> NumText(d.lines[i])]

\* lines 646-655: the append to duplicate_descriptions stands after the for loop,
\* so the list holds the description of the last duplicate group only
duplicate_descriptions(duplicate_curves) ==
    << DuplicateDescription(duplicate_curves[Len(duplicate_curves)]) >>

RECURSIVE Flatten(_)
Flatten(ss) == IF ss = <<>> THEN <<>> ELSE Head(ss) \o Flatten(Tail(ss))

DuplicateCurvesMsg(duplicate_curves) ==
    tr(Msg("Duplicate curve mnemonics found", Flatten(duplicate_descriptions(duplicate_curves))))

RECURSIVE HeaderErrorsOf(_, _)
HeaderErrorsOf(l, k) ==
    IF k > Len(l.section_names) THEN <<>>
    ELSE LET section_name == l.section_names[k]
             section == l.sections[section_name]
         IN  (IF section.kind = "items"
              THEN [i \in DOMAIN section.header_errors |->
                       tr(Msg("Header error in", << <<section_name>>, section.header_errors[i] >>))]
              ELSE <<>>)
             \o HeaderErrorsOf(l, k + 1)

\* the append standing after the loops: the last error only
get_all_header_errors_last(l) ==
    LET all == HeaderErrorsOf(l, 1)
    IN  IF all = <<>> THEN <<>> ELSE <<all[Len(all)]>>

get_all_header_errors(l) == HeaderErrorsOf(l, 1)

\* lines 586-594
StandardChecks1(l) ==
    (IF ~MandatorySections_check(l)
     THEN <<tr(Msg("Missing mandatory sections", get_missing_mandatory_sections(l)))>>
     ELSE <<>>)
    \o (IF HasSection(l, "Version") /\ ~MandatoryLinesInVersionSection_check(l)
        THEN <<tr(Msg("Missing mandatory lines in ~v Section", <<>>))>> ELSE <<>>)
    \o (IF ~MandatoryLinesInWellSection_check(l)
        THEN <<tr(Msg("Missing mandatory lines in ~w Section", <<>>))>> ELSE <<>>)

\* lines 596-612
StandardChecks2(l) ==
    (IF HasSection(l, "Curves") /\ ~ValidIndexMnemonic_check(l)
     THEN <<tr(Msg("Invalid index mnemonic. The only valid mnemonics for the index channel are DEPT, DEPTH, TIME, or INDEX.", <<>>))>>
     ELSE <<>>)
    \o (IF ~VSectionFirst_check(l)
        THEN <<tr(Msg("~v section not first", <<>>))>> ELSE <<>>)
    \o (IF ~BlankLineInSection_check(l)
        THEN [i \in DOMAIN l.sections_with_blank_line |->
                 tr(Msg("Section having blank line", << <<l.sections_with_blank_line[i]>> >>))]
        ELSE <<>>)
    \o (IF l.sections_after_a_section
        THEN <<tr(Msg("Sections after ~a section", <<>>))>> ELSE <<>>)
    \o (IF ~ValidUnitForDepth_check(l)
        THEN <<tr(Msg("If the index is depth, the units must be M (metres), F (feet) or FT (feet)", <<>>))>>
        ELSE <<>>)

\* lines 615-640
SpecialCharacterChecks(l) ==
    (IF ~ValidMnemonicCharacters_check(l)
     THEN LET invalid_mnemonics == get_invalid_mnemonics(l)
          IN  [i \in DOMAIN invalid_mnemonics |-> InvalidCharactersMsg(invalid_mnemonics[i])]
     ELSE <<>>)
    \o (IF ~MnemonicStartsWithLetter_check(l)
        THEN LET invalid_start == get_invalid_starting_mnemonics(l)
             IN  [i \in DOMAIN invalid_start |-> InvalidStartMsg(invalid_start[i])]
        ELSE <<>>)

\* lines 642-658: whether the block assigns self.duplicate_curves
ReportsDuplicateCurves(l) ==
    /\ HasSection(l, "Curves") /\ ~DuplicateCurves_check(l)
    /\ get_duplicate_curves_with_lines(l) # <<>>

DuplicateCurvesBlock(l) ==
    IF ReportsDuplicateCurves(l)
    THEN <<DuplicateCurvesMsg(get_duplicate_curves_with_lines(l))>>
    ELSE <<>>

\* the diagnostics one call appends to self.non_conformities when nothing raises
Appended(l) ==
    StandardChecks1(l) \o StandardChecks2(l) \o SpecialCharacterChecks(l)
    \o DuplicateCurvesBlock(l) \o get_all_header_errors(l)

\* get_non_conformities(): the object it leaves, the exception it raised ("no"
\* when it returned) and the list it returned, which is self.non_conformities
get_non_conformities(l) ==
    IF ValidIndexMnemonic_raises(l)
    THEN [las |-> [l EXCEPT !.non_conformities = @ \o StandardChecks1(l)],
          raised |-> "IndexError", value |-> <<>>]
    ELSE LET m == [l EXCEPT !.non_conformities = @ \o Appended(l),
                            !.duplicate_curves = IF ReportsDuplicateCurves(l)
                                                 THEN get_duplicate_curves_with_lines(l)
                                                 ELSE @]
         IN  [las |-> m, raised |-> "no", value |-> m.non_conformities]

---------------------------------------------------------------------------
(* The sources read: LAS files, section by section *)

GR   == <<"G","R">>
RHOB == <<"R","H","O","B">>
NPHI == <<"N","P","H","I">>
U_IN == <<"I","N">>
U_S  == <<"S">>
NoText == <<>>

V_VERS(n) == Line(VERS, NoText, Num(n))

V_WRAP == Line(WRAP, NoText, Str("NO"))

\* the ~V contents: complete, without WRAP, without VERS, LAS 1.2, LAS 3.0, VERS 1.0
VersionLines ==
    { <<V_VERS(20), V_WRAP>>, <<V_VERS(20)>>, <<V_WRAP>>, <<V_VERS(12), V_WRAP>>,
      <<V_VERS(30), V_WRAP>>, <<V_VERS(10), V_WRAP>> }

W(m) == Line(m, NoText, Str("x"))

\* a ~W section: STRT/STOP/STEP in unit u, the other mandatory lines, then extra
WellWith(u, extra) ==
    <<Line(STRT, u, Num(10)), Line(STOP, u, Num(20)), Line(STEP, u, Num(1)),
      W(NULL), W(COMP), W(WELL), W(FLD), W(LOC), W(SRVC), W(DATE)>> \o extra

\* the ~W contents: complete in metres, in feet, in inches; API and CTRY for
\* UWI and STAT; no UWI or API; no PROV/CNTY/CTRY/STAT; no STRT
WellLines ==
    { WellWith(U_M, <<W(UWI), W(STAT)>>),
      WellWith(U_FT, <<W(UWI), W(STAT)>>),
      WellWith(U_IN, <<W(UWI), W(STAT)>>),
      WellWith(U_M, <<W(API), W(CTRY)>>),
      WellWith(U_M, <<W(STAT)>>),
      WellWith(U_M, <<W(UWI)>>),
      Tail(WellWith(U_M, <<W(UWI), W(STAT)>>)) }

C(m, u) == Line(m, u, Str(""))

\* the ~C contents
CurveLines ==
    { <<C(DEPT, U_M), C(GR, NoText)>>,
      <<C(DEPT, U_IN), C(GR, NoText)>>,
      <<C(DEPT, U_FT), C(GR, NoText)>>,
      <<C(DEPTH, U_M), C(GR, NoText)>>,
      <<C(DEPTH, <<"m">>), C(GR, NoText)>>,
      <<C(TIME, U_S), C(GR, NoText)>>,
      <<C(TIME, U_IN), C(GR, NoText)>>,
      <<C(INDEX, NoText), C(GR, NoText)>>,
      <<C(GR, U_M), C(DEPT, U_M)>>,
      <<C(<<"d","e","p","t">>, U_M), C(<<"g","r">>, NoText)>>,
      <<C(DEPT, U_M), C(GR, NoText), C(GR, NoText)>>,
      <<C(DEPT, U_M), C(GR, NoText), C(<<"g","r">>, NoText)>>,
      <<C(DEPT, U_M), C(GR, NoText), C(RHOB, NoText), C(GR, NoText), C(RHOB, NoText)>>,
      <<C(DEPT, U_M), C(RHOB, NoText), C(GR, NoText), C(GR, NoText), C(RHOB, NoText),
        C(GR, NoText)>>,
      <<C(DEPT, U_M), C(<<"1","G","R">>, NoText)>>,
      <<C(DEPT, U_M), C(<<"_","G","R">>, NoText), C(<<"1","G","R">>, NoText), C(GR, NoText)>>,
      <<C(DEPT, U_M), C(<<"G","R","#","1">>, NoText)>>,
      <<C(DEPT, U_M), C(<<"G","R","/","1">>, NoText)>>,
      <<>> }

DataLines == <<BadLine(<<"1","0"," ","5">>)>>

Sec(lead, lines) == RawSection(Title(lead, ""), lines)

BaseV == <<V_VERS(20), V_WRAP>>
BaseW == WellWith(U_M, <<W(UWI), W(STAT)>>)
BaseC == <<C(DEPT, U_M), C(GR, NoText)>>

File(v, w, c) == <<Sec("V", v), Sec("W", w), Sec("C", c), Sec("A", DataLines)>>

\* files ~V ~W ~C ~A: the contents above, varied two sections at a time
ContentSources ==
    { File(v, w, BaseC) : v \in VersionLines, w \in WellLines }
    \cup { File(v, BaseW, c) : v \in VersionLines, c \in CurveLines }
    \cup { File(BaseV, w, c) : w \in WellLines, c \in CurveLines }

\* files of conforming contents whose sections are missing, repeated, out of
\* order, nonstandard, or hold blank or unparsable lines
StructureSources ==
    { <<>>,
      <<Sec("W", BaseW), Sec("C", BaseC), Sec("A", DataLines)>>,
      <<Sec("V", BaseV), Sec("C", BaseC), Sec("A", DataLines)>>,
      <<Sec("V", BaseV), Sec("W", BaseW), Sec("A", DataLines)>>,
      <<Sec("V", BaseV), Sec("W", BaseW), Sec("C", BaseC)>>,
      <<Sec("V", BaseV)>>,
      <<Sec("A", DataLines)>>,
      <<Sec("W", BaseW), Sec("V", BaseV), Sec("C", BaseC), Sec("A", DataLines)>>,
      <<Sec("v", BaseV), Sec("w", BaseW), Sec("c", BaseC), Sec("a", DataLines)>>,
      <<RawSection(Title("V", "ERSION"), BaseV), RawSection(Title("W", "ELL"), BaseW),
        RawSection(Title("C", "URVE"), BaseC), RawSection(Title("A", "SCII"), DataLines)>>,
      <<Sec("V", BaseV), RawSection(Title("V", "2"), <<V_VERS(20)>>), Sec("W", BaseW),
        Sec("C", BaseC), Sec("A", DataLines)>>,
      <<Sec("V", <<V_VERS(20)>>), RawSection(Title("V", "2"), BaseV), Sec("W", BaseW),
        Sec("C", BaseC), Sec("A", DataLines)>>,
      <<Sec("V", BaseV), Sec("V", <<V_VERS(20)>>), Sec("W", BaseW), Sec("C", BaseC),
        Sec("A", DataLines)>>,
      <<Sec("V", BaseV), Sec("W", BaseW), RawSection(Title("W", "2"), BaseW),
        Sec("C", BaseC), RawSection(Title("C", "2"), BaseC), Sec("A", DataLines)>>,
      <<Sec("V", BaseV), Sec("W", BaseW), Sec("C", BaseC),
        Sec("P", <<Line(<<"B","H","T">>, <<"D","E","G","C">>, Num(350))>>),
        Sec("O", <<BadLine(<<"n","o","t","e">>)>>), Sec("A", DataLines)>>,
      <<Sec("V", BaseV), Sec("W", BaseW), Sec("C", BaseC),
        Sec("P", <<Line(<<"2","B","H","T">>, NoText, Num(350)),
                   Line(<<"M","U","D","$">>, NoText, Str("x"))>>),
        RawSection(Title("P", "2"), <<>>), Sec("A", DataLines)>>,
      <<Sec("V", BaseV), Sec("W", BaseW), Sec("C", BaseC), Sec("A", DataLines),
        Sec("P", <<Line(<<"B","H","T">>, NoText, Num(350))>>)>>,
      <<Sec("V", BaseV), Sec("W", BaseW), Sec("C", BaseC),
        Sec("P", <<Line(<<"M","U","D","$">>, NoText, Str("x"))>>), Sec("A", DataLines)>>,
      <<Sec("V", BaseV), Sec("W", BaseW), Sec("C", BaseC),
        Sec("P", <<Line(<<"_","B","H","T">>, NoText, Num(350))>>), Sec("A", DataLines)>>,
      <<Sec("V", BaseV), Sec("W", BaseW \o <<W(<<"R","I","G">>), W(<<"R","I","G">>)>>),
        Sec("C", BaseC), Sec("A", DataLines)>>,
      <<Sec("V", BaseV), Sec("W", BaseW), Sec("C", BaseC), Sec("A", DataLines),
        Sec("O", <<BadLine(<<"n","o","t","e">>)>>), RawSection(Title("O", "2"), <<>>)>>,
      <<Sec("V", BaseV), Sec("W", BaseW), Sec("C", BaseC), Sec("X", <<W(COMP)>>),
        Sec("A", DataLines)>>,
      <<Sec("V", BaseV), Sec("W", WellWith(U_FT, <<W(UWI), W(STAT)>>)),
        Sec("C", <<C(TIME, U_IN), C(GR, NoText)>>), Sec("A", DataLines)>>,
      <<Sec("V", BaseV), Sec("C", <<C(DEPT, U_IN), C(GR, NoText)>>), Sec("A", DataLines)>>,
      <<Sec("W", BaseW), Sec("V", BaseV), Sec("C", <<C(DEPT, U_IN), C(GR, NoText)>>),
        Sec("A", DataLines)>>,
      <<Sec("V", BaseV), Sec("W", BaseW),
        Sec("C", <<C(GR, NoText), BadLine(<<"j","u","n","k">>), BadLine(<<"j","u","n","k">>),
                   BadLine(<<"x"," ","y">>)>>),
        Sec("X", <<BadLine(<<"j","u","n","k">>)>>), Sec("A", DataLines)>>,
      <<Sec("V", <<V_VERS(10), V_WRAP>>), Sec("W", BaseW), Sec("C", BaseC),
        Sec("P", <<Line(<<"B","H","T">>, NoText, Num(350))>>), Sec("A", DataLines)>>,
      <<Sec("V", BaseV), Sec("W", BaseW),
        Sec("C", <<C(DEPT, U_M), BlankLine, C(GR, NoText)>>),
        Sec("C", <<C(RHOB, NoText), BlankLine, C(NPHI, NoText)>>), Sec("A", DataLines)>>,
      <<Sec("V", BaseV), Sec("W", BaseW),
        Sec("C", <<C(DEPT, U_M), BlankLine, C(GR, NoText)>>), Sec("A", DataLines)>>,
      <<Sec("V", BaseV), Sec("W", BaseW),
        Sec("C", <<C(DEPT, U_M), C(GR, NoText), BlankLine>>), Sec("A", DataLines)>>,
      <<Sec("V", <<V_VERS(20), BlankLine, V_WRAP>>), Sec("W", BaseW),
        Sec("C", <<C(DEPT, U_M), BlankLine, BlankLine, C(GR, NoText)>>), Sec("A", DataLines)>>,
      <<Sec("V", <<V_VERS(20), V_WRAP, BadLine(<<"j","u","n","k">>)>>),
        Sec("W", BaseW \o <<BadLine(<<"n","o"," ","d","o","t">>)>>),
        Sec("C", BaseC), Sec("A", DataLines)>>,
      <<Sec("V", <<Line(VERS, NoText, Str("two")), V_WRAP>>), Sec("W", BaseW),
        Sec("C", BaseC), Sec("A", DataLines)>>,
      <<Sec("V", <<Line(VERS, NoText, Str("two")), V_WRAP>>),
        RawSection(Title("V", "2"), BaseV), Sec("W", BaseW),
        Sec("C", BaseC), Sec("A", DataLines)>> }

Sources == ContentSources \cup StructureSources

MnemonicCases == {"upper", "lower", "preserve"}

\* files with mnemonics in lower and mixed case
MixedCaseSources ==
    { File(<<Line(<<"v","e","r","s">>, NoText, Num(20)), Line(<<"W","r","a","p">>, NoText, Str("NO"))>>,
           BaseW, <<C(<<"d","e","p","t">>, U_M), C(<<"G","r">>, NoText), C(GR, NoText)>>),
      File(BaseV, <<Line(<<"s","t","r","t">>, U_M, Num(10))>> \o Tail(BaseW),
           <<C(<<"D","e","p","t">>, U_IN), C(<<"g","r","#">>, NoText)>>) }

\* what read() is called with: every source under the default mnemonic_case
\* 'upper', and the files of conforming structure under 'lower' and 'preserve'
Inputs ==
    (Sources \X {"upper"})
    \cup (({ File(BaseV, BaseW, c) : c \in CurveLines } \cup MixedCaseSources \cup StructureSources)
            \X MnemonicCases)

\* the index_unit overrides read() is called with: 'ft', 'm', 'cm', 'M', 'in' and ''
IndexUnits ==
    { SomeUnit(<<"f","t">>), SomeUnit(<<"m">>), SomeUnit(<<"c","m">>), SomeUnit(<<"M">>),
      SomeUnit(<<"i","n">>), SomeUnit(<<>>) }

\* the files read with an override: every unit of STRT/STOP/STEP and of the first curve
OverrideInputs ==
    ({ File(BaseV, w, BaseC) : w \in WellLines } \cup { File(BaseV, BaseW, c) : c \in CurveLines })
        \X IndexUnits

\* the sources a second read() on the same object is followed with
RereadSources ==
    { <<>>,
      <<Sec("V", BaseV), Sec("W", BaseW), Sec("C", BaseC), Sec("A", DataLines)>>,
      <<Sec("W", BaseW), Sec("C", <<C(TIME, U_S)>>)>>,
      <<Sec("V", <<Line(VERS, NoText, Str("two")), V_WRAP>>), Sec("A", DataLines)>> }

---------------------------------------------------------------------------
(* The object's life: construction, read(), then validation calls *)

NoCall == [op |-> "none", raised |-> "no", value |-> <<>>, ok |-> FALSE, n |-> 0]

NoSource == [source |-> <<>>, mnemonic_case |-> "upper", index_unit |-> NoUnit]

\* LASFile() builds the object with the default sections; LASFile(file_ref)
\* starts from no sections and calls read() before the object is returned
Init ==
    \E file_ref_given \in BOOLEAN :
        /\ las = LASFile(file_ref_given)
        /\ pc = IF file_ref_given THEN "init" ELSE "new"
        /\ src = NoSource
        /\ before = LASFile(file_ref_given)
        /\ las0 = LASFile(file_ref_given)
        /\ ret = NoCall
        /\ rets = <<>>
        /\ reads = 0

DoRead(source, mnemonic_case, index_unit) ==
    LET r == read(las, source, mnemonic_case, index_unit)
    IN  /\ las' = r.las
        /\ pc' = IF r.raised = "no" THEN "read"
                 ELSE IF pc = "init" THEN "gone" ELSE "failed"
        /\ src' = [source |-> source, mnemonic_case |-> mnemonic_case, index_unit |-> index_unit]
        /\ before' = las
        /\ las0' = IF r.raised = "no" THEN r.las ELSE las0
        /\ ret' = [op |-> "read", raised |-> r.raised, value |-> <<>>, ok |-> FALSE, n |-> 0]
        /\ rets' = <<>>
        /\ reads' = reads + 1

\* the read() of LASFile(file_ref), or the first read() on an object built by LASFile()
Read ==
    /\ pc \in {"init", "new"}
    /\ reads = 0
    /\ \/ \E input \in Inputs : DoRead(input[1], input[2], NoUnit)
       \/ \E input \in OverrideInputs : DoRead(input[1], "upper", input[2])

\* a further read() on an object that was read before
Reread ==
    /\ pc \in {"read", "failed"}
    /\ reads < MaxReads
    /\ \E source \in RereadSources : DoRead(source, "upper", NoUnit)

GetNonConformities ==
    /\ pc \in {"new", "read", "failed"}
    /\ ret.n < MaxCalls
    /\ LET r == get_non_conformities(las)
       IN  /\ las' = r.las
           /\ ret' = [op |-> "get_non_conformities", raised |-> r.raised,
                      value |-> r.value, ok |-> FALSE, n |-> ret.n + 1]
           /\ rets' = IF r.raised = "no" THEN Append(rets, r.value) ELSE rets
    /\ UNCHANGED <<pc, src, before, las0, reads>>

CheckConformity ==
    /\ pc \in {"new", "read", "failed"}
    /\ ret.n < MaxCalls
    /\ LET r == check_conformity(las)
       IN  ret' = [op |-> "check_conformity", raised |-> r.raised,
                   value |-> <<>>, ok |-> r.value, n |-> ret.n + 1]
    /\ UNCHANGED <<las, pc, src, before, las0, rets, reads>>

Next == Read \/ GetNonConformities \/ CheckConformity

Spec == Init /\ [][Next]_vars

\* the first read() of the runs in which the object is read again
FirstRead ==
    /\ pc \in {"init", "new"}
    /\ reads = 0
    /\ \E source \in StructureSources : DoRead(source, "upper", NoUnit)

NextReread == FirstRead \/ Reread \/ GetNonConformities \/ CheckConformity

SpecReread == Init /\ [][NextReread]_vars

---------------------------------------------------------------------------
(* Properties *)

\* the attributes C2 and C4 name: the document and its structural flags
Document(l) ==
    <<l.sections, l.section_names, l.raw_sections, l.duplicate_v_section,
      l.duplicate_w_section, l.duplicate_c_section, l.duplicate_p_section,
      l.duplicate_o_section, l.sections_after_a_section, l.v_section_first,
      l.blank_line_in_section, l.sections_with_blank_line, l.non_conformities,
      l.duplicate_curves>>

\* C1: on a document that has been read, the lists returned by successive
\* get_non_conformities() calls are all equal, however many calls came before.
C1_ComputedFresh ==
    pc = "read" => \A i, j \in DOMAIN rets : rets[i] = rets[j]

\* C2: after any sequence of get_non_conformities() and check_conformity()
\* calls every attribute of the LASFile has the value it had right after read().
C2_ValidationNeverMutates ==
    pc = "read" => Document(las) = Document(las0)

\* C3: read() of a source without any '~' section raises the "No ~ sections
\* found" error and yields no document.
C3_NoSectionsFails ==
    (ret.op = "read" /\ src.source = <<>>)
        => (ret.raised = NoSectionsError /\ pc \in {"failed", "gone"})

C3_Witness ==
    ret.op = "read" /\ src.source = <<>> /\ ret.raised = NoSectionsError /\ pc = "failed"

\* C4: when read() raises on a LASFile object, the object's sections,
\* structural flags, raw_sections and non_conformities are what they were
\* before the call.
C4_ReadAtomic ==
    (pc = "failed" /\ ret.op = "read") => Document(las) = Document(before)

\* the mandatory lines of ~W that have no alternative
TenMandatory == {STRT, STOP, STEP, NULL, COMP, WELL, FLD, LOC, SRVC, DATE}

NoDuplicateFlag(l) ==
    /\ ~l.duplicate_v_section /\ ~l.duplicate_w_section /\ ~l.duplicate_c_section
    /\ ~l.duplicate_p_section /\ ~l.duplicate_o_section

NoHeaderErrors(l) ==
    \A name \in DOMAIN l.sections : l.sections[name].header_errors = <<>>

\* the file of C5: ~V first with VERS and WRAP, ~W with the ten mandatory lines,
\* UWI and STAT, ~C with DEPT in M first, ~A; no duplicate section, no blank
\* line, no unparsed header line
MinimalFile(l) ==
    /\ l.v_section_first
    /\ HasSection(l, "Version")
    /\ Contains(l.sections["Version"], VERS) /\ Contains(l.sections["Version"], WRAP)
    /\ HasSection(l, "Well")
    /\ \A m \in TenMandatory \cup {UWI, STAT} : Contains(l.sections["Well"], m)
    /\ HasSection(l, "Curves")
    /\ Len(l.sections["Curves"].items) > 0
    /\ l.sections["Curves"].items[1].mnemonic = DEPT
    /\ l.sections["Curves"].items[1].unit = <<"M">>
    /\ HasSection(l, "Ascii")
    /\ NoDuplicateFlag(l)
    /\ l.sections_with_blank_line = <<>> /\ ~l.blank_line_in_section
    /\ NoHeaderErrors(l)

\* the text a rule reads as the mnemonic of an item: of a curve the original
\* text, of a Well or Parameter item the lookup key
MnemonicsRead(l) ==
    (IF HasSection(l, "Curves")
     THEN {l.sections["Curves"].items[i].original_mnemonic : i \in DOMAIN l.sections["Curves"].items}
     ELSE {})
    \cup (IF HasSection(l, "Well")
          THEN {l.sections["Well"].items[i].mnemonic : i \in DOMAIN l.sections["Well"].items}
          ELSE {})
    \cup (IF HasSection(l, "Parameter")
          THEN {l.sections["Parameter"].items[i].mnemonic : i \in DOMAIN l.sections["Parameter"].items}
          ELSE {})

\* what C5 leaves out: STRT, STOP and STEP in M too, nothing after ~A, clean
\* mnemonics that start with a letter, no curve mnemonic twice
CleanFile(l) ==
    /\ \A m \in {STRT, STOP, STEP} : Item(l.sections["Well"], m).unit = <<"M">>
    /\ ~l.sections_after_a_section
    /\ \A m \in MnemonicsRead(l) :
          /\ m # <<>>
          /\ \A i \in DOMAIN m : m[i] \in Range(UpperCase) \cup Range(LowerCase)
                                         \cup Range(Digits) \cup {"_", "-", "."}
          /\ m[1] \in Range(UpperCase) \cup Range(LowerCase)
    /\ \A i, j \in DOMAIN l.sections["Curves"].items :
          i # j => l.sections["Curves"].items[i].original_mnemonic
                     # l.sections["Curves"].items[j].original_mnemonic

Conforms ==
    /\ ret.op = "get_non_conformities" => (ret.raised = "no" /\ ret.value = <<>>)
    /\ ret.op = "check_conformity" => (ret.raised = "no" /\ ret.ok)

Emitted(held, returned) == SubSeq(returned, Len(held) + 1, Len(returned))

Count(seq, x) == Cardinality({i \in DOMAIN seq : seq[i] = x})

TwoVSections(source) ==
    Cardinality({i \in DOMAIN source : upperChar(source[i].title.lead) = "V"}) = 2

DuplicateVDiagnostic == tr(Msg("Duplicate v section", <<>>))

\* C6: for a source with two ~V sections read() sets duplicate_v_section and
\* every get_non_conformities() call returns a list with exactly one 'Duplicate v
\* section' diagnostic, the same list on the first and on every later call.
C6_DuplicateVIdempotent ==
    (pc = "read" /\ TwoVSections(src.source)) =>
        /\ las.duplicate_v_section
        /\ \A i \in DOMAIN rets :
              /\ Count(rets[i], DuplicateVDiagnostic) = 1
              /\ rets[i] = rets[1]

\* the original mnemonics met on two or more curves, and the lines of one
DuplicateGroups(l) ==
    IF ~HasSection(l, "Curves") THEN {}
    ELSE LET cs == l.sections["Curves"].items
         IN  {cs[i].original_mnemonic : i \in {i \in DOMAIN cs : \E j \in DOMAIN cs :
                  j # i /\ cs[j].original_mnemonic = cs[i].original_mnemonic}}

GroupLines(l, m) ==
    LET Named(c) == c.original_mnemonic = m
        group == SelectSeq(l.sections["Curves"].items, Named)
    IN  [i \in DOMAIN group |-> NumText(group[i].line_number)]

IsDuplicateCurveDiagnostic(d) == d.text = tr(Msg("Duplicate curve mnemonics found", <<>>)).text

\* diagnostic d names mnemonic m followed by the given lines
Names(d, m, lines) ==
    \E k \in DOMAIN d.detail :
        /\ d.detail[k] = m
        /\ k + 1 + Len(lines) <= Len(d.detail)
        /\ d.detail[k + 1] = <<"lines:">>
        /\ \A j \in DOMAIN lines : d.detail[k + 1 + j] = lines[j]

FirstCallAfterRead ==
    pc = "read" /\ ret.op = "get_non_conformities" /\ ret.n = 1 /\ ret.raised = "no"

\* C7: every duplicate-curve group is reported: the duplicate-curve diagnostics
\* of one get_non_conformities() call name each of the k >= 1 original mnemonics
\* borne by two or more curves, each with all of its line numbers.
C7_EveryGroupReported ==
    FirstCallAfterRead =>
        \A m \in DuplicateGroups(las0) :
            \E i \in DOMAIN Emitted(las0.non_conformities, ret.value) :
                LET d == Emitted(las0.non_conformities, ret.value)[i]
                IN  IsDuplicateCurveDiagnostic(d) /\ Names(d, m, GroupLines(las0, m))

OnePairOnly(l) ==
    /\ Cardinality(DuplicateGroups(l)) = 1
    /\ \A m \in DuplicateGroups(l) : Len(GroupLines(l, m)) = 2

\* C8: when exactly two curves share one original mnemonic and no other mnemonic
\* repeats, the first get_non_conformities() call emits exactly one
\* duplicate-curve diagnostic, listing the lines of both curves in section order.
C8_OnePairOneDiagnostic ==
    (FirstCallAfterRead /\ OnePairOnly(las0)) =>
        LET emitted == Emitted(las0.non_conformities, ret.value)
            dups == {i \in DOMAIN emitted : IsDuplicateCurveDiagnostic(emitted[i])}
        IN  /\ Cardinality(dups) = 1
            /\ \A i \in dups : \A m \in DuplicateGroups(las0) :
                  emitted[i].detail = <<m, <<"lines:">>>> \o GroupLines(las0, m)

C8_Witness ==
    /\ FirstCallAfterRead /\ OnePairOnly(las0)
    /\ \E i \in DOMAIN ret.value :
          /\ IsDuplicateCurveDiagnostic(ret.value[i])
          /\ Len(ret.value[i].detail) = 4
          /\ ret.value[i].detail[3] # ret.value[i].detail[4]

\* the document with the WRAP line taken out of its Version section
WithoutWRAP(l) ==
    LET NotWRAP(item) == item.mnemonic # WRAP
    IN  [l EXCEPT !.sections["Version"].items = SelectSeq(@, NotWRAP)]

MissingVersionLines == tr(Msg("Missing mandatory lines in ~v Section", <<>>))

\* new is old with one x put in somewhere
InsertedOnce(old, new, x) ==
    \E k \in DOMAIN new :
        /\ new[k] = x
        /\ old = SubSeq(new, 1, k - 1) \o SubSeq(new, k + 1, Len(new))

HasVERSAndWRAP(l) ==
    /\ HasSection(l, "Version")
    /\ Contains(l.sections["Version"], VERS) /\ Contains(l.sections["Version"], WRAP)

\* C9: from a document whose Version section has VERS and WRAP, removing WRAP
\* and nothing else changes the first get_non_conformities() result only by one
\* added 'Missing mandatory lines in ~v Section'; every other diagnostic stays.
C9_RemovingWRAPAddsOne ==
    (FirstCallAfterRead /\ HasVERSAndWRAP(las0)) =>
        LET r == get_non_conformities(WithoutWRAP(las0))
        IN  /\ r.raised = "no"
            /\ Count(ret.value, MissingVersionLines) = 0
            /\ Count(r.value, MissingVersionLines) = 1
            /\ InsertedOnce(ret.value, r.value, MissingVersionLines)

C9_Witness ==
    /\ FirstCallAfterRead /\ HasVERSAndWRAP(las0)
    /\ Len(ret.value) >= 2
    /\ Len(get_non_conformities(WithoutWRAP(las0)).value) = Len(ret.value) + 1

DepthUnitDiagnostic ==
    tr(Msg("If the index is depth, the units must be M (metres), F (feet) or FT (feet)", <<>>))

IndexCurveIs(l, names) ==
    /\ HasSection(l, "Curves")
    /\ Len(l.sections["Curves"].items) > 0
    /\ l.sections["Curves"].items[1].mnemonic \in names

DepthInBadUnit(l) ==
    /\ IndexCurveIs(l, {DEPT, DEPTH})
    /\ l.sections["Curves"].items[1].unit \notin {<<"M">>, <<"F">>, <<"F", "T">>}

HasDepthRange(l) ==
    /\ HasSection(l, "Well")
    /\ \A m \in {STRT, STOP, STEP} : Contains(l.sections["Well"], m)

Returned == pc = "read" /\ ret.op = "get_non_conformities" /\ ret.raised = "no"

\* C10 as the specification has it: a document whose index curve is DEPT or DEPTH in a unit
\* outside {M, F, FT} always gets the depth-unit diagnostic from
\* get_non_conformities(); one whose index curve is TIME never gets it.
C10_DepthUnitDiagnosed ==
    Returned =>
        /\ DepthInBadUnit(las0) => Count(ret.value, DepthUnitDiagnostic) > 0
        /\ IndexCurveIs(las0, {TIME}) => Count(ret.value, DepthUnitDiagnostic) = 0

\* C10 as amended: the first half for documents that also have a Well section
\* holding STRT, STOP and STEP; the TIME half unchanged.
C10_DepthUnitDiagnosedWithRange ==
    Returned =>
        /\ (DepthInBadUnit(las0) /\ HasDepthRange(las0)) =>
               Count(ret.value, DepthUnitDiagnostic) > 0
        /\ IndexCurveIs(las0, {TIME}) => Count(ret.value, DepthUnitDiagnostic) = 0

C10_Witness ==
    /\ Returned /\ DepthInBadUnit(las0) /\ HasDepthRange(las0)
    /\ Count(ret.value, DepthUnitDiagnostic) = ret.n

Letters == Range(UpperCase) \cup Range(LowerCase)

IsStartDiagnostic(d) == d.text = tr(Msg("Mnemonic does not start with letter", <<>>)).text

\* the diagnostic that names curve k, its mnemonic m and the first character of m
CurveStartDiagnostic(k, m) ==
    [text |-> tr(Msg("Mnemonic does not start with letter", <<>>)).text,
     detail |-> << <<"curve">>, NumText(k), m, <<m[1]>> >>]

\* C11: for every curve at position k (from 1) whose non-empty mnemonic begins
\* with a non-letter c, get_non_conformities() emits a 'Mnemonic does not start
\* with letter' diagnostic naming curve k and c, and none for a curve whose
\* mnemonic begins with a letter.
C11_NonLetterStartReported ==
    (FirstCallAfterRead /\ HasSection(las0, "Curves")) =>
        LET cs == las0.sections["Curves"].items
            emitted == Emitted(las0.non_conformities, ret.value)
        IN  \A k \in DOMAIN cs :
                LET m == cs[k].mnemonic
                IN  /\ (m # <<>> /\ m[1] \notin Letters) =>
                          Count(emitted, CurveStartDiagnostic(k, m)) = 1
                    /\ (m # <<>> /\ m[1] \in Letters) =>
                          ~\E i \in DOMAIN emitted :
                              /\ IsStartDiagnostic(emitted[i])
                              /\ emitted[i].detail[1] = <<"curve">>
                              /\ emitted[i].detail[2] = NumText(k)

C11_Witness ==
    /\ FirstCallAfterRead /\ HasSection(las0, "Curves")
    /\ Len(las0.sections["Curves"].items) = 4
    /\ las0.sections["Curves"].items[2].mnemonic[1] = "_"
    /\ las0.sections["Curves"].items[3].mnemonic[1] = "1"
    /\ Count(ret.value, CurveStartDiagnostic(3, las0.sections["Curves"].items[3].mnemonic)) = 1

IsBlankLineDiagnostic(d) == d.text = tr(Msg("Section having blank line", <<>>)).text

BlankLineDiagnostic(S) ==
    [text |-> tr(Msg("Section having blank line", <<>>)).text, detail |-> << <<S>> >>]

C13_RuleFailuresIsolated ==
    (pc = "read" /\ ret.op = "get_non_conformities") => ret.raised = "no"

\* C14: only 'no ~ sections' propagates from read(): for every source with at
\* least one ~ section, whatever its header holds, read() returns normally.
C14_OnlyFormatErrorPropagates ==
    (ret.op = "read" /\ src.source # <<>>) => (ret.raised = "no" /\ pc = "read")

\* the place in the enumeration of the rule a diagnostic belongs to, 0 for a
\* diagnostic of no rule (an unparsed header line)
RuleRank(d) ==
    LET Is(key) == d.text = tr(Msg(key, <<>>)).text
    IN  CASE Is("Missing mandatory sections") -> 1
          [] Is("Missing mandatory lines in ~v Section") -> 2
          [] Is("Missing mandatory lines in ~w Section") -> 3
          [] \E x \in {"v", "w", "c", "p", "o"} : Is("Duplicate " \o x \o " section") -> 4
          [] Is("Sections after ~a section") -> 4
          [] Is("Invalid index mnemonic. The only valid mnemonics for the index channel are DEPT, DEPTH, TIME, or INDEX.") -> 5
          [] Is("If the index is depth, the units must be M (metres), F (feet) or FT (feet)") -> 6
          [] Is("~v section not first") -> 7
          [] Is("Section having blank line") -> 8
          [] Is("Invalid characters in mnemonic") -> 9
          [] Is("Hash character (#) in mnemonic") -> 10
          [] Is("Mnemonic does not start with letter") -> 11
          [] Is("Duplicate curve mnemonics found") -> 12
          [] OTHER -> 0

\* C15: in the list get_non_conformities() returns, of two diagnostics of
\* different rules the one of the rule earlier in the enumeration comes first.
C15_RuleOrder ==
    (FirstCallAfterRead /\ before.non_conformities = <<>>) =>
        \A i, j \in DOMAIN ret.value :
            (i < j /\ RuleRank(ret.value[i]) # 0 /\ RuleRank(ret.value[j]) # 0) =>
                RuleRank(ret.value[i]) <= RuleRank(ret.value[j])

\* C16: within one call the output is deduplicated: the list the first
\* get_non_conformities() call returns holds no two equal diagnostics, also when
\* sections_with_blank_line names a section more than once.
C16_NoEqualDiagnostics ==
    FirstCallAfterRead =>
        \A i, j \in DOMAIN ret.value : i # j => ret.value[i] # ret.value[j]

MandatoryNames == {"Version", "Well", "Curves", "Ascii"}

Marker(name) ==
    CASE name = "Version" -> <<"~", "V">>
      [] name = "Well" -> <<"~", "W">>
      [] name = "Curves" -> <<"~", "C">>
      [] name = "Ascii" -> <<"~", "A">>

IsMissingSectionsDiagnostic(d) == d.text = tr(Msg("Missing mandatory sections", <<>>)).text

MissingWellLines == tr(Msg("Missing mandatory lines in ~w Section", <<>>))

\* C17: one diagnostic per missing mandatory section: the first
\* get_non_conformities() call emits exactly one diagnostic for each of Version,
\* Well, Curves, Ascii the document lacks, and none about a missing section, or
\* its missing lines, for a section that is present and complete.
C17_OnePerMissingSection ==
    FirstCallAfterRead =>
        LET emitted == Emitted(las0.non_conformities, ret.value)
            about == {i \in DOMAIN emitted : IsMissingSectionsDiagnostic(emitted[i])}
            absent == {name \in MandatoryNames : ~HasSection(las0, name)}
        IN  /\ Cardinality(about) = Cardinality(absent)
            /\ \A name \in absent :
                  Count(emitted, [text |-> tr(Msg("Missing mandatory sections", <<>>)).text,
                                  detail |-> <<Marker(name)>>]) = 1
            /\ \A name \in MandatoryNames \ absent :
                  \A i \in about : \A k \in DOMAIN emitted[i].detail :
                      emitted[i].detail[k] # Marker(name)
            /\ HasVERSAndWRAP(las0) => Count(emitted, MissingVersionLines) = 0
            /\ (HasSection(las0, "Well") /\ MandatoryLinesInWellSection_check(las0)) =>
                  Count(emitted, MissingWellLines) = 0

Markers == {"V", "W", "C", "P", "O"}

DuplicateFlag(l, X) ==
    CASE X = "V" -> l.duplicate_v_section
      [] X = "W" -> l.duplicate_w_section
      [] X = "C" -> l.duplicate_c_section
      [] X = "P" -> l.duplicate_p_section
      [] X = "O" -> l.duplicate_o_section

\* the sections of the source whose title starts with ~X, in either case
SectionsMarked(source, X) == {i \in DOMAIN source : upperChar(source[i].title.lead) = X}

\* C18: after read() on a fresh object duplicate_X_section is true exactly when
\* the source held two or more sections whose title starts with ~X, for X in
\* V, W, C, P, O; and the duplicate-sections rule passes exactly when none of
\* the five flags is set and sections_after_a_section is false.
C18_DuplicateFlags ==
    pc = "read" =>
        /\ \A X \in Markers :
              DuplicateFlag(las0, X) <=> Cardinality(SectionsMarked(src.source, X)) >= 2
        /\ DuplicateSections_check(las0) <=>
              ((\A X \in Markers : ~DuplicateFlag(las0, X)) /\ ~las0.sections_after_a_section)

\* the sections read() builds with the effective version, and their markers
BuiltWithVersion == {<<"Well", "W">>, <<"Curves", "C">>, <<"Parameter", "P">>}

\* the VERS value of the document in tenths, 0 when the document has none
VersOf(l) ==
    IF HasSection(l, "Version") /\ Contains(l.sections["Version"], VERS)
    THEN Item(l.sections["Version"], VERS).value.n
    ELSE 0

HasVers(l) == HasSection(l, "Version") /\ Contains(l.sections["Version"], VERS)

\* C19: the effective version with which Well, Curves and Parameter are built
\* is always 1.2 or 2: 2 when VERS is absent, 1.2 for every VERS below 2 and 2
\* for every VERS at or above 2.
C19_EffectiveVersion ==
    pc = "read" =>
        \A b \in BuiltWithVersion :
            SectionsMarked(src.source, b[2]) # {} =>
                LET used == las0.sections[b[1]].version
                IN  /\ used \in {12, 20}
                    /\ ~HasVers(las0) => used = 20
                    /\ (HasVers(las0) /\ VersOf(las0) < 20) => used = 12
                    /\ (HasVers(las0) /\ VersOf(las0) >= 20) => used = 20

C19_Witness ==
    /\ pc = "read" /\ HasVers(las0) /\ VersOf(las0) = 10
    /\ SectionsMarked(src.source, "W") # {} /\ las0.sections["Well"].version = 12
    /\ SectionsMarked(src.source, "C") # {} /\ las0.sections["Curves"].version = 12
    /\ SectionsMarked(src.source, "P") # {} /\ las0.sections["Parameter"].version = 12

\* the Well section holds an item under the mnemonic m
WellHolds(l, m) ==
    \E i \in DOMAIN l.sections["Well"].items : l.sections["Well"].items[i].mnemonic = m

WellComplete(l) ==
    /\ HasSection(l, "Well")
    /\ \A m \in TenMandatory : WellHolds(l, m)
    /\ \E m \in {UWI, API} : WellHolds(l, m)
    /\ \E m \in {PROV, CNTY, CTRY, STAT} : WellHolds(l, m)

\* C20: MandatoryLinesInWellSection.check() is true exactly when the Well
\* section exists and holds STRT, STOP, STEP, NULL, COMP, WELL, FLD, LOC, SRVC,
\* DATE, one of UWI and API, and one of PROV, CNTY, CTRY, STAT; the diagnostic
\* of the rule is emitted exactly when it is false.
C20_WellLinesRule ==
    /\ pc \in {"new", "read", "failed"} =>
          (MandatoryLinesInWellSection_check(las) <=> WellComplete(las))
    /\ FirstCallAfterRead =>
          (Count(Emitted(las0.non_conformities, ret.value), MissingWellLines) = 0
              <=> WellComplete(las0))
    /\ (pc = "read" /\ ret.op = "check_conformity" /\ ret.raised = "no" /\ ret.ok) =>
          WellComplete(las0)

C20_Witness ==
    /\ FirstCallAfterRead /\ WellComplete(las0)
    /\ WellHolds(las0, API) /\ ~WellHolds(las0, UWI)
    /\ WellHolds(las0, CTRY) /\ ~WellHolds(las0, STAT)
    /\ Count(ret.value, MissingWellLines) = 0

ClassChars == Letters \cup Range(Digits) \cup {"_", ".", "-"}

\* every originalMnemonic of Curves, Well and Parameter is made of [A-Za-z0-9_.-]
AllOriginalsValid(l) ==
    \A name \in {"Curves", "Well", "Parameter"} :
        HasSection(l, name) =>
            \A i \in DOMAIN l.sections[name].items :
                LET m == l.sections[name].items[i].original_mnemonic
                IN  m # <<>> /\ \A k \in DOMAIN m : m[k] \in ClassChars

IsInvalidCharactersDiagnostic(d) ==
    d.text = tr(Msg("Invalid characters in mnemonic", <<>>)).text

\* C21: the character rule judges every item of Curves, Well and Parameter by
\* its originalMnemonic: it passes exactly when each of them is made of
\* [A-Za-z0-9_.-] only, whatever the case policy and the duplicate suffixes.
C21_JudgedByOriginalMnemonic ==
    /\ pc = "read" => (ValidMnemonicCharacters_check(las0) <=> AllOriginalsValid(las0))
    /\ FirstCallAfterRead =>
          LET emitted == Emitted(las0.non_conformities, ret.value)
          IN  (\A i \in DOMAIN emitted : ~IsInvalidCharactersDiagnostic(emitted[i]))
                  <=> AllOriginalsValid(las0)

FixedSectionNames == {"Version", "Well", "Curves", "Parameter", "Ascii", "Other"}

\* C22: section names are drawn from the fixed set: after read() every key of
\* the sections mapping is one of Version, Well, Curves, Parameter, Ascii, Other.
C22_FixedSectionNames ==
    pc = "read" => DOMAIN las.sections \subseteq FixedSectionNames

\* what a non-empty override alone determines: 'm' when it holds an 'm', else itself
OverrideResult(s) == IF "m" \in Range(s) THEN SomeUnit(<<"m">>) ELSE SomeUnit(s)

Overridden == ~src.index_unit.none /\ src.index_unit.s # <<>>

\* C23: an explicit index-unit override always wins: after read() with a
\* non-empty index_unit the document's index_unit is given by the override
\* alone, whatever the units of STRT, STOP, STEP and the first curve.
C23_OverrideWins ==
    (pc = "read" /\ Overridden) => las.index_unit = OverrideResult(src.index_unit.s)

C23_Witness ==
    /\ pc = "read" /\ Overridden
    /\ src.index_unit.s = <<"f", "t">>
    /\ las.index_unit = SomeUnit(<<"f", "t">>)
    /\ HasSection(las, "Well") /\ Contains(las.sections["Well"], STRT)
    /\ Item(las.sections["Well"], STRT).unit = <<"M">>
    /\ las.sections["Curves"].items[1].unit = <<"M">>

\* the units read() compares: of STRT, STOP, STEP of Well and of the first curve,
\* as far as they exist, in upper case
UnitsCompared(l) ==
    {upper(Item(l.sections["Well"], m).unit) :
        m \in {m \in {STRT, STOP, STEP} : HasSection(l, "Well") /\ WellHolds(l, m)}}
    \cup (IF HasSection(l, "Curves") /\ Len(l.sections["Curves"].items) > 0
          THEN {upper(l.sections["Curves"].items[1].unit)} ELSE {})

Inferred == pc = "read" /\ ~Overridden /\ before.index_unit = NoUnit

\* C24: without an override the index unit is inferred only from agreement:
\* index_unit is set to a family only if something exists to compare and every
\* unit compared belongs to that family; when the units disagree or nothing is
\* there to compare, index_unit stays unset.
C24_InferredFromAgreement ==
    Inferred =>
        LET agreeing == {k \in DOMAIN DEPTH_UNITS :
                            UnitsCompared(las) \subseteq DEPTH_UNITS[k].possibilities}
        IN  /\ las.index_unit # NoUnit =>
                  /\ UnitsCompared(las) # {}
                  /\ \E k \in agreeing : las.index_unit = SomeUnit(DEPTH_UNITS[k].unit)
            /\ (UnitsCompared(las) = {} \/ agreeing = {}) => las.index_unit = NoUnit

IsHeaderErrorDiagnostic(d) == d.text = tr(Msg("Header error in", <<>>)).text

HeaderErrorDiagnostic(name, line) ==
    [text |-> tr(Msg("Header error in", <<>>)).text, detail |-> << <<name>>, line >>]

\* C25: for every header section and every line recorded in its header_errors
\* the first get_non_conformities() call emits exactly one diagnostic carrying
\* the section's name and the raw line, after all rule diagnostics; sections
\* stored as raw text contribute none.
C25_HeaderErrorsReported ==
    FirstCallAfterRead =>
        LET emitted == Emitted(las0.non_conformities, ret.value)
            errors == SelectSeq(emitted, IsHeaderErrorDiagnostic)
        IN  /\ \A i \in DOMAIN errors :
                  /\ Len(errors[i].detail) = 2
                  /\ errors[i].detail[1][1] \in DOMAIN las0.sections
                  /\ las0.sections[errors[i].detail[1][1]].kind = "items"
            /\ \A name \in DOMAIN las0.sections :
                  LET OfSection(d) == d.detail[1] = <<name>>
                      lines == [i \in DOMAIN SelectSeq(errors, OfSection) |->
                                   SelectSeq(errors, OfSection)[i].detail[2]]
                  IN  IF las0.sections[name].kind = "items"
                      THEN lines = las0.sections[name].header_errors
                      ELSE lines = <<>>
            /\ \A i, j \in DOMAIN emitted :
                  (i < j /\ IsHeaderErrorDiagnostic(emitted[i])) =>
                      IsHeaderErrorDiagnostic(emitted[j])

C25_Witness ==
    /\ FirstCallAfterRead
    /\ HasSection(las0, "Curves") /\ Len(las0.sections["Curves"].header_errors) = 3
    /\ HasSection(las0, "X") /\ las0.sections["X"].kind = "text"
    /\ Count(ret.value, HeaderErrorDiagnostic("Curves", <<"j","u","n","k">>)) = 2
    /\ Count(ret.value, HeaderErrorDiagnostic("Curves", <<"x"," ","y">>)) = 1
    /\ \E i \in DOMAIN ret.value : RuleRank(ret.value[i]) # 0

\* the object was not validated before it was read
Fresh == before \in {LASFile(TRUE), LASFile(FALSE)}

FirstCheckAfterRead ==
    pc = "read" /\ Fresh /\ ret.op = "check_conformity" /\ ret.n = 1 /\ ret.raised = "no"

\* C27: check_conformity() and get_non_conformities() agree: for the document
\* read() produced on a fresh object, check_conformity() returns true if and
\* only if the first get_non_conformities() call returns the empty list.
C27_ChecksAgree ==
    FirstCheckAfterRead =>
        LET r == get_non_conformities(las0)
        IN  ret.ok <=> (r.raised = "no" /\ r.value = <<>>)

\* the one direction of C27 that holds: a document whose first
\* get_non_conformities() call returns the empty list is accepted
C27_NoDiagnosticIsAccepted ==
    FirstCheckAfterRead =>
        LET r == get_non_conformities(las0)
        IN  (r.raised = "no" /\ r.value = <<>>) => ret.ok

\* and the other direction holds on documents without unparsed header lines
C27_AgreeWithoutHeaderErrors ==
    (FirstCheckAfterRead /\ NoHeaderErrors(las0)) =>
        LET r == get_non_conformities(las0)
        IN  ret.ok <=> (r.raised = "no" /\ r.value = <<>>)

\* the marker of each named section
MarkerOf ==
    [Version |-> "V", Well |-> "W", Curves |-> "C", Parameter |-> "P",
     Ascii |-> "A", Other |-> "O"]

\* read() has just returned
JustRead == pc = "read" /\ ret.op = "read"

\* the document LASFile(file_ref) builds from the source last read
OfLastSource == read(LASFile(TRUE), src.source, src.mnemonic_case, src.index_unit).las

SectionsOfLastSource ==
    \A name \in FixedSectionNames :
        HasSection(las, name) <=> SectionsMarked(src.source, MarkerOf[name]) # {}

FlagsOfLastSource ==
    \A X \in Markers : DuplicateFlag(las, X) <=> DuplicateFlag(OfLastSource, X)

DiagnosticsOfLastSource == las.non_conformities = OfLastSource.non_conformities

\* C28: a document reflects only the source most recently read: after any
\* sequence of read() calls on one object, a named section is in sections if
\* and only if the last source held a raw section with its marker, each
\* duplicate flag is set if and only if the last source had that duplicate, and
\* non_conformities holds no diagnostic of an earlier source.
C28_OnlyLastSource ==
    JustRead => (SectionsOfLastSource /\ FlagsOfLastSource /\ DiagnosticsOfLastSource)

---------------------------------------------------------------------------
(* The checks the applications run on the text of a file: LASFileChecker *)
(* (app_2.py) and _analyze_raw_file (Test_2.py). Their messages are      *)
(* written in English where the source has them in Russian.              *)

\* str.upper() on the rest of a title's first token: the lower-case rests
\* that occur in the files below
upperText(s) ==
    CASE s = "ersion" -> "ERSION"
      [] s = "ell" -> "ELL"
      [] OTHER -> s

\* line.strip().upper().split()[0] of a title line
first_token(title) == "~" \o upperChar(title.lead) \o upperText(title.rest)

\* the first tokens of the title lines, in file order
sections_found(source) == [i \in DOMAIN source |-> first_token(source[i].title)]

section_counts(source, section) == Count(sections_found(source), section)

\* the distinct tokens in the order of their first occurrence (keys of the dict)
CountedSections(source) ==
    LET found == sections_found(source)
        First(i) == \A j \in 1..(i - 1) : found[j] # found[i]
        firsts == SelectSeq([i \in DOMAIN found |-> i], First)
    IN  [k \in DOMAIN firsts |-> found[firsts[k]]]

required_sections == <<"~V", "~W", "~C", "~A">>

RequiredSectionMissing(section) ==
    Msg("Required section is missing", << <<section>> >>)

OnlyOnce(section, count) ==
    Msg("Section may occur only once in a LAS 2.0 file", << <<section>>, NumText(count) >>)

VMustBeFirst == Msg("Section ~V must be the first of the file", <<>>)

AMustBeLast == Msg("Data section ~A must be the last section of the file", <<>>)

\* LASFileChecker._check_file_structure: what it appends to self.errors
check_file_structure(source) ==
    LET found == sections_found(source)
        Missing(section) == \A i \in DOMAIN found : found[i] # section
        missing == SelectSeq(required_sections, Missing)
        Repeated(section) ==
            /\ section \in {"~V", "~W", "~C", "~A", "~P", "~O"}
            /\ section_counts(source, section) > 1
        repeated == SelectSeq(CountedSections(source), Repeated)
    IN  [i \in DOMAIN missing |-> RequiredSectionMissing(missing[i])]
        \o [i \in DOMAIN repeated |->
               OnlyOnce(repeated[i], section_counts(source, repeated[i]))]

\* LASFileChecker._check_section_order: what it appends to self.errors
check_section_order(source) ==
    LET sections == sections_found(source)
    IN  (IF sections # <<>> /\ sections[1] # "~V" THEN <<VMustBeFirst>> ELSE <<>>)
        \o (IF sections # <<>> /\ sections[Len(sections)] # "~A"
            THEN <<AMustBeLast>> ELSE <<>>)

BlankLineAt(section, line_no) ==
    Msg("Section has blank line at line", << <<section>>, NumText(line_no) >>)

DuplicateSectionAt(section, line_no) ==
    Msg("Duplicate section found at line", << <<section>>, NumText(line_no) >>)

VNotFirst == Msg("~V section is not the first section", <<>>)

\* the errors _analyze_raw_file appends while it scans section k: at the title
\* line the repeated token and a first section other than ~V, then every blank
\* or comment line that follows a content line of the section
AnalyzedSection(source, k) ==
    LET found == sections_found(source)
        section == found[k]
        lines == source[k].lines
        AfterContent(j) ==
            /\ lines[j].kind = "blank"
            /\ \E i \in 1..(j - 1) : lines[i].kind # "blank"
        blanks == SelectSeq([j \in DOMAIN lines |-> j], AfterContent)
    IN  (IF \E i \in 1..(k - 1) : found[i] = section
         THEN <<DuplicateSectionAt(section, LineNumber(source, k, 0))>> ELSE <<>>)
        \o (IF k = 1 /\ section # "~V" THEN <<VNotFirst>> ELSE <<>>)
        \o [b \in DOMAIN blanks |-> BlankLineAt(section, LineNumber(source, k, blanks[b]))]

RECURSIVE AnalyzedUpTo(_, _)
AnalyzedUpTo(source, k) ==
    IF k = 0 THEN <<>> ELSE AnalyzedUpTo(source, k - 1) \o AnalyzedSection(source, k)

\* Test_2._analyze_raw_file: the errors it returns
analyze_raw_file(source) == AnalyzedUpTo(source, Len(source))

---------------------------------------------------------------------------
(* Test_2.py: validate_las_file_comprehensive and its helpers *)

SectionHasBlankLine(section) == Msg("Section has blank line", << <<section>> >>)

\* F(x), with x evaluated once
WithValue(F(_), x) == CHOOSE y \in {F(v) : v \in {x}} : TRUE

\* a list without its repeated entries, in the order of the first occurrences
FirstOccurrences(seq) ==
    LET First(i) == \A j \in 1..(i - 1) : seq[j] # seq[i]
        firsts == SelectSeq([i \in DOMAIN seq |-> i], First)
    IN  [k \in DOMAIN firsts |-> seq[firsts[k]]]

Unique(seq) == WithValue(FirstOccurrences, seq)

\* _get_all_structural_errors: non_conformities is emptied, the library's
\* validation runs on the emptied list, and one message is added for every
\* section of sections_with_blank_line that the list does not hold yet; an
\* exception of the validation propagates to the caller

get_all_structural_errors(l) ==
    LET Errors(r) ==
            LET blank == [i \in DOMAIN r.las.sections_with_blank_line |->
                             SectionHasBlankLine(r.las.sections_with_blank_line[i])]
                NotReturned(e) == e \notin Range(r.value)
            IN  [las |-> r.las, raised |-> r.raised,
                 value |-> IF r.raised = "no"
                           THEN r.value \o Unique(SelectSeq(blank, NotReturned))
                           ELSE <<>>]
    IN  WithValue(Errors, get_non_conformities([l EXCEPT !.non_conformities = <<>>]))

\* _get_header_errors_by_reprocessing: the file is read once more; read()
\* raises no LASHeaderError, and the one exception it raises has a message
\* without the word 'header', so nothing is returned
get_header_errors_by_reprocessing(source) == <<>>

CriticalReadError == Msg("Critical error reading file", <<>>)

\* validate_las_file_comprehensive after its lascheck.read(file_path), whose
\* outcome is r: [errors, valid] and the object as it is left
validate_las_file_comprehensive(r, source) ==
    LET Result(s) ==
            LET Deduplicated(unique_errors) ==
                    [las |-> s.las, errors |-> unique_errors, valid |-> unique_errors = <<>>]
            IN  IF s.raised # "no"
                THEN [las |-> s.las, errors |-> <<CriticalReadError>>, valid |-> FALSE]
                ELSE WithValue(Deduplicated,
                               Unique(s.value \o get_header_errors_by_reprocessing(source)
                                          \o analyze_raw_file(source)))
    IN  IF r.raised # "no"
        THEN [las |-> r.las, errors |-> <<CriticalReadError>>, valid |-> FALSE]
        ELSE WithValue(Result, get_all_structural_errors(r.las))

---------------------------------------------------------------------------
(* Test_3.py: validate_las_file_enhanced and its helpers *)

\* an entry of the errors or warnings list
Entry(severity, text, detail) == [severity |-> severity, text |-> text, detail |-> detail]

\* _read_las_with_fallback after its lascheck.read(file_path), whose outcome is
\* r: the object, or None, and the errors of the read; read() raises no
\* LASHeaderError, every exception it raises is CRITICAL
read_las_with_fallback(r) ==
    IF r.raised = "no"
    THEN [none |-> FALSE, las |-> r.las, errors |-> <<>>]
    ELSE [none |-> TRUE, las |-> r.las,
          errors |-> <<Entry("critical", "File read error", << <<r.raised>> >>)>>]

mandatory_sections == <<"Version", "Well", "Curves", "Ascii">>

\* _validate_structure: [errors, warnings]
validate_structure(l) ==
    LET Absent(name) == ~HasSection(l, name)
        absent == SelectSeq(mandatory_sections, Absent)
    IN  [errors |->
            [i \in DOMAIN absent |->
                Entry("error", "Mandatory section is missing", <<Marker(absent[i])>>)]
            \o (IF ~l.v_section_first
                THEN <<Entry("error", "Section ~V must be first", <<>>)>> ELSE <<>>)
            \o (IF l.duplicate_v_section
                THEN <<Entry("error", "Duplicate section ~V found", <<>>)>> ELSE <<>>)
            \o (IF l.sections_after_a_section
                THEN <<Entry("error", "Sections found after section ~A", <<>>)>> ELSE <<>>),
         warnings |->
            [i \in DOMAIN l.sections_with_blank_line |->
                Entry("warning", "Blank lines in section",
                      << <<l.sections_with_blank_line[i]>> >>)]]

mandatory_well_fields == <<STRT, STOP, STEP, NULL, COMP, WELL, FLD, LOC, SRVC, DATE>>

\* _validate_headers: [errors, warnings]; the info list is left out
validate_headers(l) ==
    LET InWell(field) == Contains(well(l), field)
        NotInWell(field) == ~InWell(field)
        lacking == SelectSeq(mandatory_well_fields, NotInWell)
        vers == Item(version(l), VERS).value
    IN  [errors |->
            (IF HasSection(l, "Version") /\ ~Contains(version(l), VERS)
             THEN <<Entry("error", "Mandatory field is missing in section ~V", <<VERS>>)>>
             ELSE <<>>)
            \o (IF HasSection(l, "Version") /\ ~Contains(version(l), WRAP)
                THEN <<Entry("error", "Mandatory field is missing in section ~V", <<WRAP>>)>>
                ELSE <<>>)
            \o (IF HasSection(l, "Well")
                THEN [i \in DOMAIN lacking |->
                         Entry("error", "Mandatory field is missing in section ~W",
                               <<lacking[i]>>)]
                     \o (IF ~InWell(UWI) /\ ~InWell(API)
                         THEN <<Entry("error", "One of UWI and API must be given", <<>>)>>
                         ELSE <<>>)
                ELSE <<>>),
         warnings |->
            (IF HasSection(l, "Version") /\ Contains(version(l), VERS)
                   /\ ~(vers.num /\ vers.n \in {12, 20})
             THEN <<Entry("warning", "Nonstandard LAS version", <<>>)>> ELSE <<>>)
            \o (IF HasSection(l, "Well")
                      /\ \A field \in {PROV, CNTY, CTRY, STAT} : ~InWell(field)
                THEN <<Entry("warning", "A location field is recommended", <<>>)>>
                ELSE <<>>)]

\* _validate_data: [errors, warnings]; the statistics are left out
validate_data(l) ==
    LET index_curve == curves(l)[1]
        names == [i \in DOMAIN curves(l) |-> curves(l)[i].mnemonic]
    IN  IF ~HasSection(l, "Curves") THEN [errors |-> <<>>, warnings |-> <<>>]
        ELSE IF Len(curves(l)) = 0
        THEN [errors |-> <<Entry("error", "No curve found in the file", <<>>)>>,
              warnings |-> <<>>]
        ELSE [errors |->
                (IF upper(index_curve.mnemonic) \notin {DEPT, DEPTH, TIME, INDEX}
                 THEN <<Entry("error", "Invalid index curve", <<index_curve.mnemonic>>)>>
                 ELSE <<>>)
                \o (IF /\ upper(index_curve.mnemonic) \in {DEPT, DEPTH}
                       /\ upper(index_curve.unit) \notin {<<"M">>, <<"F">>, <<"F","T">>}
                    THEN <<Entry("error", "Invalid depth unit", <<index_curve.unit>>)>>
                    ELSE <<>>),
              warnings |->
                IF \E i, j \in DOMAIN names : i # j /\ names[i] = names[j]
                THEN <<Entry("warning", "Duplicate curve names found", <<>>)>>
                ELSE <<>>]

\* the messages of the library as they are before translation: those that hold
\* 'duplicate', 'section' or 'first'; no translated message holds one of them
KeywordTexts ==
    {x \in DOMAIN ERROR_MESSAGES :
        x \in {"No ~ sections found. Is this a LAS file?",
               "Duplicate v section", "Duplicate w section", "Duplicate c section",
               "Duplicate p section", "Duplicate o section",
               "Missing mandatory sections",
               "Missing mandatory lines in ~v Section",
               "Missing mandatory lines in ~w Section",
               "~v section not first", "Sections after ~a section",
               "Section having blank line", "Duplicate curve mnemonics found"}}

\* _get_library_errors: the diagnostics of get_non_conformities() without a
\* keyword, each as an ERROR; an exception of the call is swallowed
get_library_errors(l) ==
    LET Kept(d) == d.text \notin KeywordTexts
        AsError(d) == Entry("error", d.text, d.detail)
        Errors(r) ==
            [las |-> r.las,
             errors |-> IF r.raised = "no"
                        THEN [i \in DOMAIN SelectSeq(r.value, Kept) |->
                                 AsError(SelectSeq(r.value, Kept)[i])]
                        ELSE <<>>]
    IN  WithValue(Errors, get_non_conformities(l))

CountSeverity(entries, severity) ==
    Cardinality({i \in DOMAIN entries : entries[i].severity = severity})

\* _calculate_validation_score
calculate_validation_score(errors, warnings) ==
    LET score == 100 - 30 * CountSeverity(errors, "critical")
                     - 10 * CountSeverity(errors, "error") - 2 * Len(warnings)
    IN  IF score < 0 THEN 0 ELSE score

\* _generate_summary: which of the four summaries is returned
generate_summary(errors, warnings) ==
    IF CountSeverity(errors, "critical") > 0 THEN "cannot be processed"
    ELSE IF CountSeverity(errors, "error") > 0 THEN "errors found"
    ELSE IF Len(warnings) > 0 THEN "warnings"
    ELSE "conforms"

\* valid, as the result is built: no entry of severity ERROR
valid_result(errors) == CountSeverity(errors, "error") = 0

\* validate_las_file_enhanced after its lascheck.read(file_path), whose outcome
\* is r: the result and the object as it is left
validate_las_file_enhanced(r) ==
    LET f == read_las_with_fallback(r)
        Collected(library) ==
            LET structure == validate_structure(f.las)
                headers == validate_headers(f.las)
                data == validate_data(f.las)
            IN  IF f.none THEN [las |-> f.las, errors |-> f.errors, warnings |-> <<>>]
                ELSE [las |-> library.las,
                      errors |-> f.errors \o structure.errors \o headers.errors
                                     \o data.errors \o library.errors,
                      warnings |-> structure.warnings \o headers.warnings
                                       \o data.warnings]
        Result(c) ==
            [las |-> c.las,
             errors |-> c.errors,
             warnings |-> c.warnings,
             summary |-> generate_summary(c.errors, c.warnings),
             valid |-> valid_result(c.errors),
             score |-> calculate_validation_score(c.errors, c.warnings),
             error_count |-> [critical |-> CountSeverity(c.errors, "critical"),
                              error |-> CountSeverity(c.errors, "error"),
                              warning |-> Len(c.warnings)]]
    IN  WithValue(Result,
                  WithValue(Collected,
                            IF f.none THEN [las |-> f.las, errors |-> <<>>]
                            ELSE get_library_errors(f.las)))

---------------------------------------------------------------------------
(* The applications at work: each is given the path of one file *)

\* the files the applications are given: those above, and one whose long
\* titles are in lower case
AppFiles ==
    Sources
    \cup { <<RawSection(Title("v", "ersion"), BaseV), RawSection(Title("w", "ell"), BaseW),
             RawSection(Title("C", "URVE"), BaseC), RawSection(Title("A", "SCII"), DataLines)>> }

AppCall(op, raised, value, ok) ==
    [op |-> op, raised |-> raised, value |-> value, ok |-> ok, n |-> 0]

GivenFile(source) == [NoSource EXCEPT !.source = source]

\* LASFileChecker(filepath) and its _check_file_structure()
CheckFileStructure ==
    /\ pc = "init" /\ ret.op = "none"
    /\ \E source \in AppFiles :
          /\ src' = GivenFile(source)
          /\ ret' = AppCall("_check_file_structure", "no", check_file_structure(source), FALSE)
    /\ pc' = "checker"
    /\ UNCHANGED <<las, before, las0, rets, reads>>

\* _check_section_order() on the same checker: self.errors grows
CheckSectionOrder ==
    /\ pc = "checker" /\ ret.op = "_check_file_structure"
    /\ ret' = AppCall("_check_section_order", "no",
                      ret.value \o check_section_order(src.source), FALSE)
    /\ UNCHANGED <<las, pc, src, before, las0, rets, reads>>

AnalyzeRawFile ==
    /\ pc = "init" /\ ret.op = "none"
    /\ \E source \in AppFiles :
          /\ src' = GivenFile(source)
          /\ ret' = AppCall("_analyze_raw_file", "no", analyze_raw_file(source), FALSE)
    /\ pc' = "analyzed"
    /\ UNCHANGED <<las, before, las0, rets, reads>>

\* las_file = lascheck.read(file_path), with which _get_all_structural_errors'
\* callers, validate_las_file_comprehensive and validate_las_file_enhanced begin
LascheckRead ==
    /\ pc = "init" /\ ret.op = "none"
    /\ \E source \in AppFiles : DoRead(source, "upper", NoUnit)

\* _get_all_structural_errors(las_file) on the object just read
GetAllStructuralErrors ==
    /\ pc = "read" /\ ret.op = "read"
    /\ \E s \in {get_all_structural_errors(las)} :
           /\ las' = s.las
           /\ ret' = AppCall("_get_all_structural_errors", s.raised, s.value, FALSE)
    /\ UNCHANGED <<pc, src, before, las0, rets, reads>>

\* the outcome of the lascheck.read() that has just run
ReadOutcome == [las |-> las, raised |-> ret.raised]

\* validate_las_file_comprehensive(file_path), from its read() on
ValidateComprehensive ==
    /\ pc \in {"read", "gone"} /\ ret.op = "read"
    /\ \E v \in {validate_las_file_comprehensive(ReadOutcome, src.source)} :
           /\ las' = v.las
           /\ ret' = AppCall("validate_las_file_comprehensive", "no", v.errors, v.valid)
    /\ pc' = "validated"
    /\ UNCHANGED <<src, before, las0, rets, reads>>

\* validate_las_file_enhanced(file_path), from its read() on
ValidateEnhanced ==
    /\ pc \in {"read", "gone"} /\ ret.op = "read"
    /\ \E v \in {validate_las_file_enhanced(ReadOutcome)} :
           /\ las' = v.las
           /\ ret' = [op |-> "validate_las_file_enhanced", raised |-> "no",
                      value |-> v.errors, ok |-> v.valid, n |-> 0,
                      warnings |-> v.warnings, summary |-> v.summary,
                      score |-> v.score, error_count |-> v.error_count]
    /\ pc' = "validated"
    /\ UNCHANGED <<src, before, las0, rets, reads>>

InitApps == Init /\ pc = "init"

NextApps ==
    \/ CheckFileStructure \/ CheckSectionOrder \/ AnalyzeRawFile
    \/ LascheckRead \/ GetAllStructuralErrors
    \/ ValidateComprehensive \/ ValidateEnhanced

SpecApps == InitApps /\ [][NextApps]_vars

---------------------------------------------------------------------------
(* Properties of the applications *)

\* the file's sections are opened by markers with the leading letters V, W, C, A
MarkersInOrder(source) ==
    /\ Len(source) = 4
    /\ [i \in 1..4 |-> upperChar(source[i].title.lead)] = <<"V", "W", "C", "A">>

LongTitled(source) == \E i \in DOMAIN source : source[i].title.rest # ""

CheckerDone == pc = "checker" /\ ret.op = "_check_section_order"

\* C26: section markers are recognised by their leading letter only: for a file
\* whose sections are opened by titles with the leading letters V, W, C, A in
\* that order, long titles included, LASFileChecker reports no missing
\* mandatory section, no '~V must be first' and no '~A must be last', and
\* _analyze_raw_file reports no '~V section is not the first section'.
C26_LeadingLetterOnly ==
    /\ (CheckerDone /\ MarkersInOrder(src.source)) =>
          /\ \A i \in DOMAIN required_sections :
                Count(ret.value, RequiredSectionMissing(required_sections[i])) = 0
          /\ Count(ret.value, VMustBeFirst) = 0
          /\ Count(ret.value, AMustBeLast) = 0
    /\ (pc = "analyzed" /\ MarkersInOrder(src.source)) => Count(ret.value, VNotFirst) = 0

\* with one-letter markers the property holds
C26_OneLetterMarkers ==
    /\ (CheckerDone /\ MarkersInOrder(src.source) /\ ~LongTitled(src.source)) =>
          ret.value = <<>>
    /\ (pc = "analyzed" /\ MarkersInOrder(src.source) /\ ~LongTitled(src.source)) =>
          Count(ret.value, VNotFirst) = 0


\* the library's diagnostic of a repeated section ~X
DuplicateSectionDiagnostic(X) ==
    tr(Msg(CASE X = "V" -> "Duplicate v section"
             [] X = "W" -> "Duplicate w section"
             [] X = "C" -> "Duplicate c section"
             [] X = "P" -> "Duplicate p section"
             [] X = "O" -> "Duplicate o section", <<>>))

StructuralErrorsReturned == ret.op = "_get_all_structural_errors" /\ ret.raised = "no"

\* C29: _get_all_structural_errors returns all structural errors of the
\* document: whenever a duplicate flag of the object is set, the list it returns
\* holds the library's duplicate-section diagnostic of that marker, and so does
\* the error list of validate_las_file_comprehensive.
C29_DuplicatesReturned ==
    /\ StructuralErrorsReturned =>
          \A X \in Markers :
              DuplicateFlag(las, X) => Count(ret.value, DuplicateSectionDiagnostic(X)) >= 1
    /\ (ret.op = "validate_las_file_comprehensive" /\ ret.value # <<CriticalReadError>>) =>
          \A X \in Markers :
              DuplicateFlag(las, X) => Count(ret.value, DuplicateSectionDiagnostic(X)) >= 1

\* the list never holds a duplicate-section diagnostic
C29_NeverReturned ==
    StructuralErrorsReturned =>
        \A i \in DOMAIN ret.value :
            ret.value[i] \notin {DuplicateSectionDiagnostic(X) : X \in Markers}


Enhanced == ret.op = "validate_las_file_enhanced"

\* C30: validate_las_file_enhanced never reports a file it could not process
\* as valid: valid is true only if the error list holds no entry of severity
\* CRITICAL and none of severity ERROR, so valid never comes with
\* error_count.critical > 0 or with the 'cannot be processed' summary.
C30_ValidOnlyIfProcessed ==
    (Enhanced /\ ret.ok) =>
        /\ CountSeverity(ret.value, "critical") = 0
        /\ CountSeverity(ret.value, "error") = 0
        /\ ret.error_count.critical = 0
        /\ ret.summary # "cannot be processed"

\* the part of C30 about ERROR entries holds, and the counts are those of the list
C30_ValidHasNoError ==
    Enhanced =>
        /\ ret.ok <=> CountSeverity(ret.value, "error") = 0
        /\ ret.error_count.critical = CountSeverity(ret.value, "critical")
        /\ ret.error_count.error = CountSeverity(ret.value, "error")
        /\ (ret.summary = "cannot be processed") <=> (ret.error_count.critical > 0)

=============================================================================
